---- MODULE Spec2Model ----
(***************************************************************************)
(* A model of the raft-vm interpreter: the operand stack, locals, call     *)
(* stack and instruction pointer of every VM, the reference-counted heap   *)
(* of every VM, the mailboxes between VMs, and the host that drives them.  *)
(* A VM is named by its path: the root VM is <<>>, and the child VM held   *)
(* by the Actor/Supervisor object at address a of VM p's heap is p \o <<a>>.*)
(***************************************************************************)
EXTENDS Integers, Sequences, FiniteSets, TLC

VARIABLES
    source,     \* the program text handed to Compiler::compile, as tokens
    bytecode,   \* the instruction vector (cloned unchanged into every child)
    vms,        \* path -> VM (execution context, heap, mailbox)
    host,       \* position of the host task that feeds the root mailbox
    held,       \* ChannelSend errors returned so far and held by the caller
    hist,       \* per mailbox: values sent, values pushed by ReceiveMessage
    last,       \* the operation performed by the last transition
    run         \* the call of VM::run on the root VM: its progress or result

vars == <<source, bytecode, vms, host, held, hist, last, run>>

\* a VM built from instructions written out by its caller has no text
NoSource == <<>>

\* ---------------------------------------------------------------- bounds
MaxTokens == 3
\* ---------------------------------------------------------------- bounds
MaxStack == 3
MaxCalls == 2
MaxDepth == 2
MaxObjects == 3
MaxVMs == 3
MaxQueue == 2
MaxCount == 2
MaxAllocations == 2
MaxTarget == 3
MaxOperand == 5

\* ------------------------------------------------------ program constants
MailboxCapacity == 100

\* ----------------------------------------------------------------- values
IntV(n) == [t |-> "Integer", v |-> n]
BoolV(b) == [t |-> "Boolean", v |-> IF b THEN 1 ELSE 0]
RefV(a) == [t |-> "Reference", v |-> a]
NullV == [t |-> "Null", v |-> 0]

Ok == "Ok"

IsRef(v) == v.t = "Reference"

\* f64 payloads are kept in fixed point: v counts units of 1/FloatScale.
FloatScale == 1000
FloatV(n) == [t |-> "Float", v |-> n]

\* i32, the payload of Value::Integer
IntMax == 2147483647
IntMin == (0 - IntMax) - 1

\* Rust integer division truncates toward zero.
TruncDiv(a, b) ==
    IF b > 0
    THEN IF a < 0 /\ a % b # 0 THEN (a \div b) + 1 ELSE a \div b
    ELSE IF b = IntMin
    THEN IF a = IntMin THEN 1 ELSE 0
    ELSE IF a < 0 /\ a % (-b) # 0 THEN -((a \div (-b)) + 1)
    ELSE -(a \div (-b))

TruncRem(a, b) == a - b * TruncDiv(a, b)

\* what an integer operation returns when its exact result is not an i32:
\* a build with overflow checks (the dev profile) panics, a build without them
\* (the release profile) keeps the low 32 bits; val carries the wrapped value
Overflow == "Overflow"
\* the operation panics in every build
Panic == "Panic"

Checked(over, v) ==
    [res |-> IF over THEN Overflow ELSE Ok, val |-> IntV(v)]

AddOverflows(a, b) ==
    (b > 0 /\ a > IntMax - b) \/ (b < 0 /\ a < IntMin - b)

WrappingAdd(a, b) ==
    IF b > 0 /\ a > IntMax - b
    THEN ((a - IntMax) - 1) + ((b - IntMax) - 1)
    ELSE IF b < 0 /\ a < IntMin - b
    THEN ((a + IntMax) + 1) + ((b + IntMax) + 1)
    ELSE a + b

SubOverflows(a, b) ==
    (b < 0 /\ a > IntMax + b) \/ (b > 0 /\ a < IntMin + b)

WrappingSub(a, b) ==
    IF b < 0 /\ a > IntMax + b
    THEN ((a - IntMax) - 1) - ((b + IntMax) + 1)
    ELSE IF b > 0 /\ a < IntMin + b
    THEN ((a + IntMax) + 1) - ((b - IntMax) - 1)
    ELSE a - b

MulOverflows(a, b) ==
    IF a = 0 \/ b = 0 THEN FALSE
    ELSE IF a > 0 /\ b > 0 THEN a > IntMax \div b
    ELSE IF a < 0 /\ b < 0
    THEN a = IntMin \/ b = IntMin \/ (-a) > IntMax \div (-b)
    ELSE IF a > 0 THEN b < (IntMin + (a - 1)) \div a
    ELSE a < (IntMin + (b - 1)) \div b

\* the four bytes of an i32 in two's complement, lowest first
Bytes(x) ==
    LET n == IF x < 0 THEN (x + IntMax) + 1 ELSE x
    IN <<n % 256, (n \div 256) % 256, (n \div 65536) % 256,
         (n \div 16777216) + (IF x < 0 THEN 128 ELSE 0)>>

FromBytes(b) ==
    (b[1] + 256 * b[2] + 65536 * b[3])
    + 16777216 * (IF b[4] >= 128 THEN b[4] - 256 ELSE b[4])

\* the sum of the byte products that land in column k
RECURSIVE Column(_, _, _, _)
Column(x, y, k, i) ==
    IF i > k THEN 0 ELSE x[i] * y[k + 1 - i] + Column(x, y, k, i + 1)

\* the low four bytes of the product, column by column with the carry
RECURSIVE MulBytes(_, _, _, _)
MulBytes(x, y, k, sum) ==
    IF k = 4 THEN <<sum % 256>>
    ELSE <<sum % 256>>
         \o MulBytes(x, y, k + 1, Column(x, y, k + 1, 1) + sum \div 256)

WrappingMul(a, b) ==
    IF MulOverflows(a, b)
    THEN FromBytes(MulBytes(Bytes(a), Bytes(b), 1,
                            Column(Bytes(a), Bytes(b), 1, 1)))
    ELSE a * b

\* i32::pow, by squaring: acc takes base whenever the exponent is odd, base
\* is squared while more than one bit of the exponent is left; over tells
\* whether one of the products has left the range. Every turn of the loop
\* works on the values the turn before has computed.
RECURSIVE IntPow(_, _, _, _)
IntPow(base, exp, acc, over) ==
    IF exp = 0 THEN Checked(over, acc)
    ELSE IF exp = 1
    THEN Checked(over \/ MulOverflows(acc, base), WrappingMul(acc, base))
    ELSE CHOOSE r \in
             {IntPow(b, exp \div 2, a, o) :
                 b \in {WrappingMul(base, base)},
                 a \in {IF exp % 2 = 1 THEN WrappingMul(acc, base) ELSE acc},
                 o \in {\/ over
                        \/ MulOverflows(base, base)
                        \/ exp % 2 = 1 /\ MulOverflows(acc, base)}} : TRUE

\* FloatScale / x^(-y) for y < 0, truncated at every division
RECURSIVE ScaledRecip(_, _, _)
ScaledRecip(acc, x, y) ==
    IF y = 0 \/ acc = 0 THEN acc
    ELSE IF x = 1 THEN acc
    ELSE IF x = -1 THEN (IF y % 2 = 0 THEN acc ELSE -acc)
    ELSE ScaledRecip(TruncDiv(acc, x), x, y + 1)

\* From<&str> for VmError: the text becomes the error
Message(text) == "Message(" \o text \o ")"

ValueAdd(a, b) ==
    IF a.t = "Integer" /\ b.t = "Integer"
    THEN Checked(AddOverflows(a.v, b.v), WrappingAdd(a.v, b.v))
    ELSE IF a.t = "Float" /\ b.t = "Float"
    THEN [res |-> Ok, val |-> FloatV(a.v + b.v)]
    ELSE [res |-> Message("Type mismatch for Add"), val |-> NullV]

ValueSub(a, b) ==
    IF a.t = "Integer" /\ b.t = "Integer"
    THEN Checked(SubOverflows(a.v, b.v), WrappingSub(a.v, b.v))
    ELSE IF a.t = "Float" /\ b.t = "Float"
    THEN [res |-> Ok, val |-> FloatV(a.v - b.v)]
    ELSE [res |-> Message("Type mismatch for Sub"), val |-> NullV]

ValueMul(a, b) ==
    IF a.t = "Integer" /\ b.t = "Integer"
    THEN Checked(MulOverflows(a.v, b.v), WrappingMul(a.v, b.v))
    ELSE IF a.t = "Float" /\ b.t = "Float"
    THEN [res |-> Ok, val |-> FloatV(TruncDiv(a.v * b.v, FloatScale))]
    ELSE [res |-> Message("Type mismatch for Mul"), val |-> NullV]

ValueDiv(a, b) ==
    IF a.t = "Integer" /\ b.t = "Integer"
    THEN IF b.v = 0
         THEN [res |-> Message("Division by zero"), val |-> NullV]
         ELSE IF a.v = IntMin /\ b.v = -1
         THEN [res |-> Panic, val |-> NullV]
         ELSE [res |-> Ok, val |-> IntV(TruncDiv(a.v, b.v))]
    ELSE IF a.t = "Float" /\ b.t = "Float"
    THEN IF b.v = 0
         THEN [res |-> Message("Division by zero"), val |-> NullV]
         ELSE [res |-> Ok, val |-> FloatV(TruncDiv(a.v * FloatScale, b.v))]
    ELSE [res |-> Message("Type mismatch for Div"), val |-> NullV]

\* OpCode::Mod closure
ValueMod(a, b) ==
    IF a.t = "Integer" /\ b.t = "Integer"
    THEN IF b.v = 0
         THEN [res |-> "DivisionByZero", val |-> NullV]
         ELSE IF a.v = IntMin /\ b.v = -1
         THEN [res |-> Panic, val |-> NullV]
         ELSE [res |-> Ok, val |-> IntV(TruncRem(a.v, b.v))]
    ELSE [res |-> "TypeMismatch", val |-> NullV]

\* OpCode::Neg closure
ValueNeg(a) ==
    IF a.t = "Integer"
    THEN Checked(a.v = IntMin, IF a.v = IntMin THEN IntMin ELSE -a.v)
    ELSE IF a.t = "Float" THEN [res |-> Ok, val |-> FloatV(-a.v)]
    ELSE [res |-> "TypeMismatch", val |-> NullV]

\* OpCode::Exp closure: a negative integer exponent gives a Float, the
\* reciprocal of the positive power.
ValueExp(a, b) ==
    IF a.t = "Integer" /\ b.t = "Integer"
    THEN IF b.v < 0
         THEN [res |-> Ok,
               val |-> FloatV(IF a.v = 0 THEN 0
                              ELSE ScaledRecip(FloatScale, a.v, b.v))]
         ELSE IntPow(a.v, b.v, 1, FALSE)
    ELSE IF a.t = "Float" /\ b.t = "Float"
    THEN \* powf, exact here for the exponents 0.0 and 1.0 only
         [res |-> Ok,
          val |-> FloatV(IF b.v = 0 THEN FloatScale ELSE a.v)]
    ELSE [res |-> "TypeMismatch", val |-> NullV]

\* ------------------------------------------------------------------- heap
EmptyObjects == [a \in {} |-> [kind |-> "Array", rc |-> 0]]
EmptyLocals == [i \in {} |-> NullV]

HeapGet(m, a) == a \in DOMAIN m.objects

\* HeapObject::increment_ref behind heap.get_mut
IncrementReference(m, a) ==
    IF HeapGet(m, a)
    THEN [m |-> [m EXCEPT !.objects[a].rc = @ + 1], res |-> Ok]
    ELSE [m |-> m, res |-> "InvalidReference"]

\* a variant that finds the object but leaves its count alone
DecrementReferenceIdle(m, a) ==
    IF HeapGet(m, a)
    THEN [m |-> m, res |-> Ok]
    ELSE [m |-> m, res |-> "InvalidReference"]

\* a variant that subtracts without looking at the count
DecrementReferenceUnchecked(m, a) ==
    IF HeapGet(m, a)
    THEN [m |-> [m EXCEPT !.objects[a].rc = @ - 1], res |-> Ok]
    ELSE [m |-> m, res |-> "InvalidReference"]

\* HeapObject::decrement_ref behind heap.get_mut: saturates at zero
DecrementReference(m, a) ==
    IF HeapGet(m, a)
    THEN [m |-> [m EXCEPT !.objects[a].rc = IF @ > 0 THEN @ - 1 ELSE @],
          res |-> Ok]
    ELSE [m |-> m, res |-> "InvalidReference"]

\* Heap::allocate: the object goes to next_address, which then advances
Allocate(m, kind) ==
    [m EXCEPT !.objects = [a \in DOMAIN @ \cup {m.next_address} |->
                              IF a = m.next_address
                              THEN [kind |-> kind, rc |-> 0] ELSE @[a]],
              !.next_address = @ + 1]

\* a variant that also gives up the objects with a single holder
IsAliveShared(obj) == obj.rc > 1

IsAlive(obj) == obj.rc > 0

\* Heap::collect_garbage on one heap: retain the live objects
Retained(m) == {a \in DOMAIN m.objects : IsAlive(m.objects[a])}

\* ----------------------------------------------------- push / pop helpers
Top(s) == s[Len(s)]
Front(s) == SubSeq(s, 1, Len(s) - 1)

PushValue(m, v) ==
    IF IsRef(v)
    THEN LET r == IncrementReference(m, v.v)
         IN IF r.res = Ok
            THEN [m |-> [r.m EXCEPT !.stack = Append(@, v)], res |-> Ok]
            ELSE [m |-> m, res |-> r.res]
    ELSE [m |-> [m EXCEPT !.stack = Append(@, v)], res |-> Ok]

PopValue(m) ==
    IF m.stack = <<>>
    THEN [m |-> m, res |-> "StackUnderflow", val |-> NullV]
    ELSE LET v == Top(m.stack)
             m1 == [m EXCEPT !.stack = Front(@)]
         IN IF IsRef(v)
            THEN LET r == DecrementReference(m1, v.v)
                 IN [m |-> r.m, res |-> r.res, val |-> v]
            ELSE [m |-> m1, res |-> Ok, val |-> v]

\* the closure an arithmetic instruction hands to unary_op / binary_op
UnaryClosure(name, a) == ValueNeg(a)

BinaryClosure(name, a, b) ==
    CASE name = "Add" -> ValueAdd(a, b)
      [] name = "Sub" -> ValueSub(a, b)
      [] name = "Mul" -> ValueMul(a, b)
      [] name = "Div" -> ValueDiv(a, b)
      [] name = "Mod" -> ValueMod(a, b)
      [] name = "Exp" -> ValueExp(a, b)

\* unary_op: the operand is taken off the stack with a plain Vec::pop
UnaryOp(m, name) ==
    IF m.stack = <<>>
    THEN [m |-> m, res |-> "StackUnderflow"]
    ELSE LET v == Top(m.stack)
             m1 == [m EXCEPT !.stack = Front(@)]
             r == UnaryClosure(name, v)
         IN IF r.res \in {Ok, Overflow}
            THEN [m |-> [m1 EXCEPT !.stack = Append(@, r.val)],
                  res |-> r.res]
            ELSE [m |-> m1, res |-> r.res]

\* a variant that pops what there is before it counts the operands
BinaryOpPopping(m, name) ==
    IF Len(m.stack) < 2
    THEN [m |-> [m EXCEPT !.stack = <<>>], res |-> "StackUnderflow"]
    ELSE LET b == Top(m.stack)
             a == Top(Front(m.stack))
             m1 == [m EXCEPT !.stack = Front(Front(@))]
             r == BinaryClosure(name, a, b)
         IN IF r.res \in {Ok, Overflow}
            THEN [m |-> [m1 EXCEPT !.stack = Append(@, r.val)],
                  res |-> r.res]
            ELSE [m |-> m1, res |-> r.res]

\* a variant that hands the closure its operands in the order popped
BinaryOpSwapped(m, name) ==
    IF Len(m.stack) < 2
    THEN [m |-> m, res |-> "StackUnderflow"]
    ELSE LET b == Top(m.stack)
             a == Top(Front(m.stack))
             m1 == [m EXCEPT !.stack = Front(Front(@))]
             r == BinaryClosure(name, b, a)
         IN IF r.res \in {Ok, Overflow}
            THEN [m |-> [m1 EXCEPT !.stack = Append(@, r.val)],
                  res |-> r.res]
            ELSE [m |-> m1, res |-> r.res]

\* binary_op: b is popped first, then a, both with a plain Vec::pop
BinaryOp(m, name) ==
    IF Len(m.stack) < 2
    THEN [m |-> m, res |-> "StackUnderflow"]
    ELSE LET b == Top(m.stack)
             a == Top(Front(m.stack))
             m1 == [m EXCEPT !.stack = Front(Front(@))]
             r == BinaryClosure(name, a, b)
         IN IF r.res \in {Ok, Overflow}
            THEN [m |-> [m1 EXCEPT !.stack = Append(@, r.val)],
                  res |-> r.res]
            ELSE [m |-> m1, res |-> r.res]

\* ---------------------------------------------------------------- opcodes
Op0(name) == [op |-> name, n |-> 0, val |-> NullV]
OpN(name, k) == [op |-> name, n |-> k, val |-> NullV]
PushConst(v) == [op |-> "PushConst", n |-> 0, val |-> v]

\* VM::new seen from a spawn: fresh context, heap and mailbox; set_ip(entry).
\* strategy is what set_strategy has kept of its arguments: struct VM has no
\* field for it, so nothing writes it.  supervisor is the _supervisor
\* field, None at every spawn, with the queue of the channel it sends on.
NoSupervisor == [some |-> FALSE, queue |-> <<>>]

NewVM(entry) ==
    [stack |-> <<>>, locals |-> EmptyLocals, ip |-> entry,
     call_stack |-> <<>>, objects |-> EmptyObjects, next_address |-> 0,
     queue |-> <<>>, rx_closed |-> FALSE, tx_alive |-> TRUE,
     strategy |-> <<>>, supervisor |-> NoSupervisor]

\* The result of an instruction confined to one VM, as a result on the system
Local(S, p, r) == [S |-> [S EXCEPT ![p] = r.m], res |-> r.res, val |-> NullV]

\* a variant that forgets the Reference the local held before
StoreValueKeeping(m, index, value) ==
    LET m1 == [m EXCEPT !.locals =
                  [i \in DOMAIN @ \cup {index} |->
                      IF i = index THEN value ELSE @[i]]]
    IN IF IsRef(value) THEN IncrementReference(m1, value.v)
       ELSE [m |-> m1, res |-> Ok]

\* StoreVar after the pop: insert, release the old local, count the new one
StoreValue(m, index, value) ==
    LET m1 == [m EXCEPT !.locals =
                  [i \in DOMAIN @ \cup {index} |->
                      IF i = index THEN value ELSE @[i]]]
    IN IF index \in DOMAIN m.locals /\ IsRef(m.locals[index])
          /\ ~HeapGet(m, m.locals[index].v)
       THEN [m |-> m1, res |-> "InvalidReference"]
       ELSE IF IsRef(value)
       THEN IncrementReference(
                IF index \in DOMAIN m.locals /\ IsRef(m.locals[index])
                THEN DecrementReference(m1, m.locals[index].v).m ELSE m1,
                value.v)
       ELSE IF index \in DOMAIN m.locals /\ IsRef(m.locals[index])
       THEN DecrementReference(m1, m.locals[index].v)
       ELSE [m |-> m1, res |-> Ok]

StoreVarPopped(r, index) ==
    IF r.res # Ok THEN [m |-> r.m, res |-> r.res]
    ELSE StoreValue(r.m, index, r.val)

ExecStoreVar(m, index) == StoreVarPopped(PopValue(m), index)

ExecLoadVar(m, index) ==
    IF index \in DOMAIN m.locals
    THEN PushValue(m, m.locals[index])
    ELSE [m |-> m, res |-> "VariableNotFound"]

ExecDup(m) ==
    IF m.stack # <<>> THEN PushValue(m, Top(m.stack))
    ELSE [m |-> m, res |-> "StackUnderflow"]

ExecSwap(m) ==
    IF Len(m.stack) < 2 THEN [m |-> m, res |-> "StackUnderflowFor"]
    ELSE LET len == Len(m.stack)
         IN [m |-> [m EXCEPT !.stack =
                       [i \in 1..len |-> IF i = len THEN @[len - 1]
                                         ELSE IF i = len - 1 THEN @[len]
                                         ELSE @[i]]],
             res |-> Ok]

\* a variant that takes every target
ExecJumpUnchecked(m, target, len) ==
    [m |-> [m EXCEPT !.ip = target], res |-> Ok]

\* a variant that refuses the target one past the last instruction
ExecJumpInside(m, target, len) ==
    IF target >= len THEN [m |-> m, res |-> "ExecutionOutOfBounds"]
    ELSE [m |-> [m EXCEPT !.ip = target], res |-> Ok]

ExecJump(m, target, len) ==
    IF target > len THEN [m |-> m, res |-> "ExecutionOutOfBounds"]
    ELSE [m |-> [m EXCEPT !.ip = target], res |-> Ok]

\* a variant that checks the target whatever Boolean was popped
JumpIfFalsePoppedChecking(r, target, len) ==
    IF r.res # Ok THEN [m |-> r.m, res |-> r.res]
    ELSE IF r.val.t = "Boolean" /\ target > len
    THEN [m |-> r.m, res |-> "ExecutionOutOfBounds"]
    ELSE IF r.val = BoolV(FALSE)
    THEN [m |-> [r.m EXCEPT !.ip = target], res |-> Ok]
    ELSE IF r.val = BoolV(TRUE) THEN [m |-> r.m, res |-> Ok]
    ELSE [m |-> r.m, res |-> "TypeMismatch"]

JumpIfFalsePopped(r, target, len) ==
    IF r.res # Ok THEN [m |-> r.m, res |-> r.res]
    ELSE IF r.val = BoolV(FALSE)
    THEN IF target > len
         THEN [m |-> r.m, res |-> "ExecutionOutOfBounds"]
         ELSE [m |-> [r.m EXCEPT !.ip = target], res |-> Ok]
    ELSE IF r.val = BoolV(TRUE) THEN [m |-> r.m, res |-> Ok]
    ELSE [m |-> r.m, res |-> "TypeMismatch"]

\* a variant that classifies the top of the stack before it pops it
ExecJumpIfFalsePeeking(m, target, len) ==
    IF m.stack = <<>> THEN [m |-> m, res |-> "StackUnderflow"]
    ELSE IF Top(m.stack).t # "Boolean" THEN [m |-> m, res |-> "TypeMismatch"]
    ELSE JumpIfFalsePopped(PopValue(m), target, len)

ExecJumpIfFalse(m, target, len) == JumpIfFalsePopped(PopValue(m), target, len)

\* a variant that accepts the one-past-the-end target, as Jump does
ExecCallInclusive(m, addr, len) ==
    IF addr > len THEN [m |-> m, res |-> "ExecutionOutOfBounds"]
    ELSE [m |-> [m EXCEPT !.call_stack = Append(@, m.ip), !.ip = addr],
          res |-> Ok]

ExecCall(m, addr, len) ==
    IF addr >= len THEN [m |-> m, res |-> "ExecutionOutOfBounds"]
    ELSE [m |-> [m EXCEPT !.call_stack = Append(@, m.ip), !.ip = addr],
          res |-> Ok]

ExecReturn(m) ==
    IF m.call_stack # <<>>
    THEN [m |-> [m EXCEPT !.ip = Top(m.call_stack),
                          !.call_stack = Front(@)],
          res |-> Ok]
    ELSE [m |-> m, res |-> "StackUnderflow"]

\* a variant that does not wait: recv on an empty mailbox yields None at once
RecvReadyAtOnce(m) == TRUE

\* mailbox.recv(): Some(head) while the queue is not empty; None once the
\* queue is empty and the channel is closed or has no sender left; pending
\* otherwise.
RecvReady(m) == m.queue # <<>> \/ m.rx_closed \/ ~m.tx_alive

\* ReceiveMessage once recv() has yielded message: rebalance, then push
ReceivePush(d, message) ==
    IF d.res # Ok THEN d ELSE PushValue(d.m, message)

ReceiveTaken(m1, message) ==
    ReceivePush(IF IsRef(message) THEN DecrementReference(m1, message.v)
                ELSE [m |-> m1, res |-> Ok],
                message)

ExecReceiveMessage(m) ==
    IF m.queue # <<>>
    THEN ReceiveTaken([m EXCEPT !.queue = Tail(@)], Head(m.queue))
    ELSE [m |-> m, res |-> "MailboxEmpty"]

\* SpawnActor / SpawnSupervisor: the child VM lives in the new heap object
SpawnPushed(S, p, c, addr, r) ==
    [S |-> [q \in DOMAIN S \cup {c} |->
               IF q = c THEN NewVM(addr) ELSE IF q = p THEN r.m ELSE S[q]],
     res |-> r.res, val |-> NullV]

\* a variant that allocates the object before it checks the entry
ExecSpawnEager(S, p, kind, addr, len) ==
    IF addr >= len
    THEN [S |-> [S EXCEPT ![p] = Allocate(S[p], kind)],
          res |-> "ExecutionOutOfBounds", val |-> NullV]
    ELSE SpawnPushed(S, p, p \o <<S[p].next_address>>, addr,
                     PushValue(Allocate(S[p], kind), RefV(S[p].next_address)))

ExecSpawn(S, p, kind, addr, len) ==
    IF addr >= len
    THEN [S |-> S, res |-> "ExecutionOutOfBounds", val |-> NullV]
    ELSE SpawnPushed(S, p, p \o <<S[p].next_address>>, addr,
                     PushValue(Allocate(S[p], kind), RefV(S[p].next_address)))

\* a variant that keeps one slot of the mailbox free
SendReadyEarly(S, p) ==
    LET m == S[p]
    IN Len(m.stack) >= 2 /\ IsRef(Top(m.stack))
       /\ HeapGet(m, Top(m.stack).v)
       /\ m.objects[Top(m.stack).v].kind = "Actor"
       /\ ~S[p \o <<Top(m.stack).v>>].rx_closed
       => Len(S[p \o <<Top(m.stack).v>>].queue) < MailboxCapacity - 1

\* a variant whose channel takes one value more than its capacity
SendReadyOverfull(S, p) ==
    LET m == S[p]
    IN Len(m.stack) >= 2 /\ IsRef(Top(m.stack))
       /\ HeapGet(m, Top(m.stack).v)
       /\ m.objects[Top(m.stack).v].kind = "Actor"
       /\ ~S[p \o <<Top(m.stack).v>>].rx_closed
       => Len(S[p \o <<Top(m.stack).v>>].queue) <= MailboxCapacity

\* sender.send(message) is pending while the recipient's queue is full
SendReady(S, p) ==
    LET m == S[p]
    IN Len(m.stack) >= 2 /\ IsRef(Top(m.stack))
       /\ HeapGet(m, Top(m.stack).v)
       /\ m.objects[Top(m.stack).v].kind = "Actor"
       /\ ~S[p \o <<Top(m.stack).v>>].rx_closed
       => Len(S[p \o <<Top(m.stack).v>>].queue) < MailboxCapacity

\* a variant whose channel takes the message twice
SendDeliveredTwice(S, p, c, message, r) ==
    [S |-> [S EXCEPT ![p] = r.m,
                     ![c].queue = Append(Append(@, message), message)],
     res |-> r.res, val |-> NullV]

\* SendMessage, after the send succeeded: the actor reference goes back
SendDelivered(S, p, c, message, r) ==
    [S |-> [S EXCEPT ![p] = r.m, ![c].queue = Append(@, message)],
     res |-> r.res, val |-> NullV]

\* a variant whose failure path gives the channel-slot count back
SendCountedReleasing(S, p, address, message, i) ==
    IF i.res # Ok THEN Local(S, p, i)
    ELSE IF S[p \o <<address>>].rx_closed
    THEN [S |-> [S EXCEPT ![p] = IF IsRef(message)
                                 THEN DecrementReference(i.m, message.v).m
                                 ELSE i.m],
          res |-> "ChannelSend", val |-> message]
    ELSE SendDelivered(S, p, p \o <<address>>, message,
                       PushValue(i.m, RefV(address)))

\* a variant whose failure path puts the actor reference back on the stack
SendCountedRestoring(S, p, address, message, i) ==
    IF i.res # Ok THEN Local(S, p, i)
    ELSE IF S[p \o <<address>>].rx_closed
    THEN [S |-> [S EXCEPT ![p] = PushValue(i.m, RefV(address)).m],
          res |-> "ChannelSend", val |-> message]
    ELSE SendDelivered(S, p, p \o <<address>>, message,
                       PushValue(i.m, RefV(address)))

\* SendMessage, once the message is counted for the channel slot: send
SendCounted(S, p, address, message, i) ==
    IF i.res # Ok THEN Local(S, p, i)
    ELSE IF S[p \o <<address>>].rx_closed
    THEN [S |-> [S EXCEPT ![p] = i.m], res |-> "ChannelSend", val |-> message]
    ELSE SendDelivered(S, p, p \o <<address>>, message,
                       PushValue(i.m, RefV(address)))

\* SendMessage, after both pops: resolve the actor, count the message
SendPopped(S, p, actor_ref, r2) ==
    IF r2.res # Ok THEN Local(S, p, [m |-> r2.m, res |-> r2.res])
    ELSE IF ~IsRef(actor_ref)
    THEN Local(S, p, [m |-> r2.m, res |-> "InvalidReference"])
    ELSE IF ~(HeapGet(r2.m, actor_ref.v)
              /\ r2.m.objects[actor_ref.v].kind = "Actor")
    THEN Local(S, p, [m |-> r2.m, res |-> "InvalidReference"])
    ELSE SendCounted(S, p, actor_ref.v, r2.val,
                     IF IsRef(r2.val) THEN IncrementReference(r2.m, r2.val.v)
                     ELSE [m |-> r2.m, res |-> Ok])

SendActorPopped(S, p, r1) ==
    IF r1.res # Ok THEN Local(S, p, [m |-> r1.m, res |-> r1.res])
    ELSE SendPopped(S, p, r1.val, PopValue(r1.m))

ExecSendMessage(S, p) == SendActorPopped(S, p, PopValue(S[p]))

\* SetStrategy / RestartChild: VM::set_strategy and VM::restart_child only log
SupervisorVerbPopped(r) ==
    IF r.res # Ok THEN [m |-> r.m, res |-> r.res]
    ELSE IF ~IsRef(r.val) THEN [m |-> r.m, res |-> "InvalidReference"]
    ELSE IF HeapGet(r.m, r.val.v) /\ r.m.objects[r.val.v].kind = "Supervisor"
    THEN PushValue(r.m, r.val)
    ELSE [m |-> r.m, res |-> "InvalidReference"]

ExecSupervisorVerb(m) == SupervisorVerbPopped(PopValue(m))

\* VM::set_strategy and VM::restart_child log their argument and return
VmSetStrategy(m, strategy) == m

VmRestartChild(m, child) == m

\* SetStrategy / RestartChild that found the supervisor: the call on its VM
SetStrategyCalled(p, strategy, r) ==
    IF r.res # Ok THEN r
    ELSE [r EXCEPT !.S[p \o <<Top(r.S[p].stack).v>>] =
                       VmSetStrategy(@, strategy)]

RestartChildCalled(p, child, r) ==
    IF r.res # Ok THEN r
    ELSE [r EXCEPT !.S[p \o <<Top(r.S[p].stack).v>>] =
                       VmRestartChild(@, child)]

\* OpCode::execute
Execute(S, p, op) ==
    LET m == S[p]
        len == Len(bytecode)
    IN CASE op.op = "Add" -> Local(S, p, BinaryOp(m, "Add"))
         [] op.op = "Sub" -> Local(S, p, BinaryOp(m, "Sub"))
         [] op.op = "Mul" -> Local(S, p, BinaryOp(m, "Mul"))
         [] op.op = "Div" -> Local(S, p, BinaryOp(m, "Div"))
         [] op.op = "Neg" -> Local(S, p, UnaryOp(m, "Neg"))
         [] op.op = "PushConst" -> Local(S, p, PushValue(m, op.val))
         [] op.op = "Pop" -> Local(S, p, PopValue(m))
         [] op.op = "Dup" -> Local(S, p, ExecDup(m))
         [] op.op = "Swap" -> Local(S, p, ExecSwap(m))
         [] op.op = "StoreVar" -> Local(S, p, ExecStoreVar(m, op.n))
         [] op.op = "LoadVar" -> Local(S, p, ExecLoadVar(m, op.n))
         [] op.op = "Mod" -> Local(S, p, BinaryOp(m, "Mod"))
         [] op.op = "Exp" -> Local(S, p, BinaryOp(m, "Exp"))
         [] op.op = "Jump" -> Local(S, p, ExecJump(m, op.n, len))
         [] op.op = "JumpIfFalse" -> Local(S, p, ExecJumpIfFalse(m, op.n, len))
         [] op.op = "Call" -> Local(S, p, ExecCall(m, op.n, len))
         [] op.op = "Return" -> Local(S, p, ExecReturn(m))
         [] op.op = "ReceiveMessage" -> Local(S, p, ExecReceiveMessage(m))
         [] op.op = "SpawnActor" -> ExecSpawn(S, p, "Actor", op.n, len)
         [] op.op = "SendMessage" -> ExecSendMessage(S, p)
         [] op.op = "SpawnSupervisor" -> ExecSpawn(S, p, "Supervisor", op.n, len)
         [] op.op = "SetStrategy" ->
                SetStrategyCalled(p, op.n, Local(S, p, ExecSupervisorVerb(m)))
         [] op.op = "RestartChild" ->
                RestartChildCalled(p, op.n, Local(S, p, ExecSupervisorVerb(m)))

\* ExecutionContext::step on VM p: fetch, execute, advance ip if unchanged
\* a variant of step that advances ip whatever execute returned
StepExecutedAdvancing(p, ip, opcode, r) ==
    [S |-> IF r.S[p].ip = ip THEN [r.S EXCEPT ![p].ip = @ + 1] ELSE r.S,
     res |-> r.res, val |-> r.val, op |-> opcode]

StepExecuted(p, ip, opcode, r) ==
    IF r.res # Ok
    THEN [S |-> r.S, res |-> r.res, val |-> r.val, op |-> opcode]
    ELSE [S |-> IF r.S[p].ip = ip THEN [r.S EXCEPT ![p].ip = @ + 1] ELSE r.S,
          res |-> Ok, val |-> r.val, op |-> opcode]

\* What the builds of the crate make of a step: an integer operation that
\* overflowed has panicked before its push (overflow checks) or has pushed
\* the wrapped value and gone on (no overflow checks)
StepOutcomes(p, r) ==
    IF r.res = Overflow
    THEN {[r EXCEPT !.res = Panic, !.S[p].stack = Front(@)],
          [r EXCEPT !.res = Ok, !.S[p].ip = @ + 1]}
    ELSE {r}

StepResult(S, p) ==
    IF S[p].ip >= Len(bytecode)
    THEN [S |-> S, res |-> "ExecutionOutOfBounds", val |-> NullV,
          op |-> Op0("none")]
    ELSE StepExecuted(p, S[p].ip, bytecode[S[p].ip + 1],
                      Execute(S, p, bytecode[S[p].ip + 1]))

\* --------------------------------------------------------------- programs
ConstValues == {IntV(42), BoolV(TRUE), BoolV(FALSE), NullV, RefV(0)}
Targets == 0..MaxTarget

Ops ==
    {PushConst(v) : v \in ConstValues}
    \cup {Op0(name) : name \in {"Pop", "Dup", "Swap", "Add", "Sub", "Mul",
                                "Div", "Mod", "Neg", "Exp", "Return",
                                "SendMessage", "ReceiveMessage"}}
    \cup {OpN(name, t) : name \in {"Jump", "JumpIfFalse", "Call", "SpawnActor",
                                   "SpawnSupervisor"}, t \in Targets}
    \cup {OpN(name, 0) : name \in {"StoreVar", "LoadVar", "SetStrategy",
                                   "RestartChild"}}

\* the instructions that can succeed on the empty stack of a fresh VM
Starters ==
    {op \in Ops : op.op \in {"PushConst", "Jump", "Call", "SpawnActor",
                             "SpawnSupervisor", "ReceiveMessage"}}

\* every program of at most two instructions (a second instruction is only
\* reached after a first one that can succeed)
ShortPrograms ==
    {<<>>} \cup {<<a>> : a \in Ops} \cup {<<a, b>> : a \in Starters, b \in Ops}

\* the programs of the repository's tests, and longer scenarios
TestPrograms ==
    { <<PushConst(IntV(42)), OpN("SpawnActor", 4), Op0("SendMessage"),
        OpN("Jump", 5), Op0("ReceiveMessage")>>,
      <<PushConst(RefV(0)), OpN("SpawnActor", 4), Op0("SendMessage"),
        OpN("Jump", 5), Op0("ReceiveMessage")>>,
      <<OpN("Call", 2), PushConst(IntV(42)), Op0("Return")>>,
      <<OpN("SpawnActor", 6), OpN("SpawnActor", 6), Op0("Swap"),
        Op0("SendMessage"), Op0("ReceiveMessage"), Op0("Pop"), Op0("Pop")>>,
      <<OpN("SpawnActor", 0), Op0("Dup"), Op0("Pop"), Op0("Pop")>>,
      <<PushConst(IntV(42)), OpN("SpawnActor", 6), Op0("SendMessage"),
        PushConst(BoolV(TRUE)), Op0("Swap"), Op0("SendMessage"),
        Op0("ReceiveMessage"), Op0("ReceiveMessage")>>,
      <<OpN("SpawnActor", 6), Op0("Dup"), Op0("SendMessage"),
        PushConst(IntV(42)), Op0("Swap"), Op0("SendMessage"),
        Op0("ReceiveMessage"), Op0("ReceiveMessage")>>,
      <<OpN("SpawnActor", 3), OpN("SpawnActor", 3), Op0("Add"),
        Op0("ReceiveMessage")>>,
      <<PushConst(IntV(42)), PushConst(IntV(0)), Op0("Div")>>,
      <<OpN("SpawnActor", 4), Op0("Dup"), Op0("SendMessage"), OpN("Jump", 7),
        OpN("SpawnActor", 3), Op0("ReceiveMessage"), Op0("Pop")>>,
      <<OpN("SpawnActor", 4), Op0("Dup"), Op0("SendMessage"), OpN("Jump", 10),
        OpN("SpawnActor", 3), Op0("ReceiveMessage"), Op0("Pop"),
        PushConst(IntV(42)), Op0("Swap"), Op0("SendMessage")>>,
      <<OpN("SpawnActor", 1), Op0("Dup"), OpN("StoreVar", 0),
        OpN("StoreVar", 0)>>,
      <<OpN("SpawnActor", 1), OpN("StoreVar", 0), OpN("SpawnActor", 1),
        OpN("StoreVar", 0)>>,
      <<OpN("SpawnActor", 1), Op0("Pop"), OpN("SpawnActor", 1)>>,
      <<PushConst(IntV(42)), OpN("SpawnSupervisor", 4), Op0("SendMessage"),
        OpN("Jump", 5), Op0("ReceiveMessage")>> }

Programs == ShortPrograms \cup TestPrograms

\* ------------------------------------------------------------------ state
Root == <<>>

\* VM::new for the root; the tests may allocate an Array before running
RootVM(prealloc) ==
    [NewVM(0) EXCEPT !.objects = IF prealloc
                                 THEN (0 :> [kind |-> "Array", rc |-> 0])
                                 ELSE EmptyObjects,
                     !.next_address = IF prealloc THEN 1 ELSE 0]

NoHist == [sent |-> <<>>, pushed |-> <<>>, relayed |-> FALSE]

Event(kind, p, op, ip, res, val) ==
    [kind |-> kind, vm |-> p, op |-> op, ip |-> ip, res |-> res, val |-> val]

\* the tests allocate the Array their PushConst(Reference) refers to
HasRefConst(prog) ==
    \E i \in 1..Len(prog) : prog[i].op = "PushConst" /\ IsRef(prog[i].val)

Init ==
    /\ source = NoSource
    /\ bytecode \in Programs
    /\ \E prealloc \in {FALSE, HasRefConst(bytecode)} :
           vms = (Root :> RootVM(prealloc))
    /\ host = 0
    /\ held = <<>>
    /\ hist = (Root :> NoHist)
    /\ last = Event("init", Root, Op0("none"), 0, Ok, NullV)
    /\ run = "none"

\* the exploration bounds, as a predicate on a system state
Bounded(S) ==
    /\ Cardinality(DOMAIN S) <= MaxVMs
    /\ \A p \in DOMAIN S :
           /\ Len(p) <= MaxDepth
           /\ Len(S[p].stack) <= MaxStack
           /\ Len(S[p].call_stack) <= MaxCalls
           /\ S[p].next_address <= MaxObjects
           /\ p = Root => Len(S[p].queue) <= MaxQueue

IsPrefix(s, t) == Len(s) <= Len(t) /\ SubSeq(t, 1, Len(s)) = s

\* the histories follow the set of live mailboxes
HistFor(S, h) == [q \in DOMAIN S |-> IF q \in DOMAIN h THEN h[q] ELSE NoHist]

\* ---------------------------------------------------------------- actions
\* The mailbox histories after a step of VM m (path p) with result r
StepHist(p, m, r, h) ==
    IF r.res = Ok /\ r.op.op = "SendMessage"
    THEN [h EXCEPT ![p \o <<Top(m.stack).v>>].sent =
             Append(@, m.stack[Len(m.stack) - 1])]
    ELSE IF r.res = Ok /\ r.op.op = "ReceiveMessage"
    THEN [h EXCEPT ![p].pushed = Append(@, Top(r.S[p].stack))]
    ELSE h

StepApply(p, m, r) ==
    /\ r.op.op = "ReceiveMessage" => RecvReady(m)
    /\ r.op.op = "SendMessage" => SendReady(vms, p)
    /\ Bounded(r.S)
    /\ vms' = r.S
    /\ hist' = StepHist(p, m, r, HistFor(r.S, hist))
    /\ held' = IF r.res = "ChannelSend"
               THEN Append(held, [vm |-> p, val |-> r.val]) ELSE held
    /\ last' = Event("step", p, r.op, m.ip, r.res, r.val)

\* One call of ExecutionContext::step on VM p (by run's loop or by the host)
Step(p) ==
    /\ p \in DOMAIN vms
    /\ \E r \in StepOutcomes(p, StepResult(vms, p)) : StepApply(p, vms[p], r)
    /\ UNCHANGED <<source, bytecode, host, run>>

\* a variant that winds next_address back to the end of what it retains
CollectedRewinding(S, p, keep) ==
    [q \in {q \in DOMAIN S :
              ~\E a \in DOMAIN S[p].objects \ keep : IsPrefix(p \o <<a>>, q)} |->
        IF q = p
        THEN [S[p] EXCEPT !.objects = [a \in keep |-> @[a]],
                          !.next_address = Cardinality({a \in 0..@ :
                                               \E b \in keep : a <= b})]
        ELSE S[q]]

\* a variant that also takes one count off every object it retains
CollectedAging(S, p, keep) ==
    [q \in {q \in DOMAIN S :
              ~\E a \in DOMAIN S[p].objects \ keep : IsPrefix(p \o <<a>>, q)} |->
        IF q = p
        THEN [S[p] EXCEPT !.objects = [a \in keep |-> [@[a] EXCEPT !.rc = @ - 1]]]
        ELSE S[q]]

\* Heap::collect_garbage on the heap of VM p: dropping an actor object drops
\* the child VM it holds, and that child's heap with it
Collected(S, p, keep) ==
    [q \in {q \in DOMAIN S :
              ~\E a \in DOMAIN S[p].objects \ keep : IsPrefix(p \o <<a>>, q)} |->
        IF q = p THEN [S[p] EXCEPT !.objects = [a \in keep |-> @[a]]]
        ELSE S[q]]

GcApply(S) ==
    /\ vms' = S
    /\ hist' = HistFor(S, hist)

\* VM::collect_garbage on VM p
CollectGarbage(p) ==
    /\ p \in DOMAIN vms
    /\ GcApply(Collected(vms, p, Retained(vms[p])))
    /\ last' = Event("gc", p, Op0("none"), vms[p].ip, Ok, NullV)
    /\ UNCHANGED <<source, bytecode, host, held, run>>

\* The host task of handle_run: send Integer(42), then Boolean(true)
HostSend ==
    /\ host \in {0, 1}
    /\ LET v == IF host = 0 THEN IntV(42) ELSE BoolV(TRUE)
       IN IF vms[Root].rx_closed
          THEN UNCHANGED <<vms, hist>>
          ELSE /\ Len(vms[Root].queue) < MailboxCapacity
               /\ Len(vms[Root].queue) < MaxQueue
               /\ vms' = [vms EXCEPT ![Root].queue = Append(@, v)]
               /\ hist' = [hist EXCEPT ![Root].sent = Append(@, v)]
    /\ host' = host + 1
    /\ last' = Event("host_send", Root, Op0("none"), vms[Root].ip, Ok, NullV)
    /\ UNCHANGED <<source, bytecode, held, run>>

\* ... and the task ends, which drops the root mailbox's only sender
HostDropSender ==
    /\ host = 2
    /\ host' = 3
    /\ vms' = [vms EXCEPT ![Root].tx_alive = FALSE]
    /\ last' = Event("host_drop", Root, Op0("none"), vms[Root].ip, Ok, NullV)
    /\ UNCHANGED <<source, bytecode, held, hist, run>>

\* Receiver::close on the mailbox of a spawned VM p, as the tests do
CloseMailbox(p) ==
    /\ p \in DOMAIN vms /\ p # Root
    /\ ~vms[p].rx_closed
    /\ vms' = [vms EXCEPT ![p].rx_closed = TRUE]
    /\ last' = Event("close", p, Op0("none"), vms[p].ip, Ok, NullV)
    /\ UNCHANGED <<source, bytecode, host, held, hist, run>>

RelayApply(a, message, i) ==
    /\ i.res = Ok
    /\ vms' = [vms EXCEPT ![Root] = [i.m EXCEPT !.queue = Append(@, message)],
                          ![<<a>>].queue = Tail(@)]
    /\ hist' = [hist EXCEPT ![Root].sent = Append(@, message),
                            ![<<a>>].relayed = TRUE]

\* decrement_ref then increment_ref on the object of a relayed Reference
Rebalance(m, message) ==
    IF ~IsRef(message) THEN [m |-> m, res |-> Ok]
    ELSE IF ~HeapGet(m, message.v) THEN [m |-> m, res |-> "InvalidReference"]
    ELSE IncrementReference(DecrementReference(m, message.v).m, message.v)

\* The test harness takes the head of a child's mailbox and sends it on to
\* the root's own mailbox
HostRelay(a) ==
    /\ <<a>> \in DOMAIN vms
    /\ vms[<<a>>].queue # <<>>
    /\ vms[Root].tx_alive /\ ~vms[Root].rx_closed
    /\ Len(vms[Root].queue) < MaxQueue
    /\ RelayApply(a, Head(vms[<<a>>].queue),
                  Rebalance(vms[Root], Head(vms[<<a>>].queue)))
    /\ last' = Event("relay", <<a>>, Op0("none"), vms[Root].ip, Ok, NullV)
    /\ UNCHANGED <<source, bytecode, host, held, run>>

Next ==
    \/ \E p \in DOMAIN vms : Step(p)
    \/ \E p \in DOMAIN vms : CollectGarbage(p)
    \/ HostSend
    \/ HostDropSender
    \/ \E p \in DOMAIN vms : CloseMailbox(p)
    \/ \E a \in 0..MaxObjects : HostRelay(a)

Spec == Init /\ [][Next]_vars

\* ---------------------------------------------------------------- VM::run
\* the caller of lib.rs run keeps the sender _tx until run returns and never
\* sends: a host position of its own
HostHolding == 4

\* the number of sends that no mailbox can take without a receive
FloodSends == MailboxCapacity + 1

\* A straight-line program that spawns one actor and sends it n values
Flood(n) ==
    [i \in 1..(3 * n + 1) |->
        IF i = 1 THEN OpN("SpawnActor", 1)
        ELSE IF i % 3 = 2 THEN PushConst(IntV(42))
        ELSE IF i % 3 = 0 THEN Op0("Swap")
        ELSE Op0("SendMessage")]

FloodPrograms == {Flood(MailboxCapacity), Flood(FloodSends)}

\* A program that receives once more than the host task of handle_run sends
ReceivePrograms ==
    {<<Op0("ReceiveMessage"), Op0("ReceiveMessage"), Op0("ReceiveMessage")>>,
     <<Op0("ReceiveMessage"), Op0("ReceiveMessage"), Op0("Swap"),
       Op0("ReceiveMessage")>>}

RunPrograms == Programs \cup FloodPrograms \cup ReceivePrograms

\* handle_run (a host task feeds the mailbox) or lib.rs run (nobody does),
\* at the call of vm.run()
RunInit ==
    /\ source = NoSource
    /\ bytecode \in RunPrograms
    /\ vms = (Root :> RootVM(FALSE))
    /\ host \in {0, HostHolding}
    /\ held = <<>>
    /\ hist = (Root :> NoHist)
    /\ last = Event("init", Root, Op0("none"), 0, Ok, NullV)
    /\ run = "ready"

\* VM::run before its loop: an empty instruction vector is refused
RunEntered(code) == IF code = <<>> THEN "NoBytecode" ELSE "running"

RunStart ==
    /\ run = "ready"
    /\ run' = RunEntered(bytecode)
    /\ last' = Event("run_start", Root, Op0("none"), vms[Root].ip, Ok, NullV)
    /\ UNCHANGED <<source, bytecode, vms, host, held, hist>>

\* a variant whose loop goes round again after an error
RunAfterRetrying(res) == "running"

\* VM::run after a step: the first error is returned, Ok goes round again
RunAfter(res) == IF res = Ok THEN "running" ELSE res

RunStepApply(r) ==
    /\ StepApply(Root, vms[Root], r)
    /\ run' = RunAfter(r.res)

\* one turn of the loop of VM::run: while ip < len, step
RunStep ==
    /\ run = "running"
    /\ vms[Root].ip < Len(bytecode)
    /\ \E r \in StepOutcomes(Root, StepResult(vms, Root)) : RunStepApply(r)
    /\ UNCHANGED <<source, bytecode, host>>

\* the loop condition fails: VM::run returns Ok(())
RunReturn ==
    /\ run = "running"
    /\ vms[Root].ip >= Len(bytecode)
    /\ run' = Ok
    /\ last' = Event("run_return", Root, Op0("none"), vms[Root].ip, Ok, NullV)
    /\ UNCHANGED <<source, bytecode, vms, host, held, hist>>

RunNext ==
    \/ RunStart
    \/ RunStep
    \/ RunReturn
    \/ HostSend
    \/ HostDropSender

\* the tokio runtime keeps polling the task that runs the VM and the host
\* task for as long as they can make progress
RunFairness ==
    /\ WF_vars(RunStart)
    /\ WF_vars(RunStep)
    /\ WF_vars(RunReturn)
    /\ WF_vars(HostSend)
    /\ WF_vars(HostDropSender)

RunSpec == RunInit /\ [][RunNext]_vars /\ RunFairness

\* --------------------------------------------- a VM under a supervisor
\* VM::new(bytecode, Some(sender)) handed to VM::run: the caller keeps the
\* receiving end of the supervisor channel
SupervisedVM == [RootVM(FALSE) EXCEPT !.supervisor.some = TRUE]

SupervisedInit ==
    /\ source = NoSource
    /\ bytecode \in RunPrograms
    /\ vms = (Root :> SupervisedVM)
    /\ host \in {0, HostHolding}
    /\ held = <<>>
    /\ hist = (Root :> NoHist)
    /\ last = Event("init", Root, Op0("none"), 0, Ok, NullV)
    /\ run = "ready"

SupervisedSpec == SupervisedInit /\ [][RunNext]_vars /\ RunFairness

\* ------------------------------------------------------ binary arithmetic
\* Two Integer constants and a binary instruction, alone or above a third
\* value, stepped to the end as test_basic_arithmetic does
Operands == (0 - MaxOperand)..MaxOperand

ArithmeticOps == {"Add", "Sub", "Mul", "Div", "Mod", "Exp"}

ArithmeticPrograms ==
    LET tail == {<<PushConst(IntV(a)), PushConst(IntV(b)), Op0(name)>> :
                    a \in Operands, b \in Operands, name \in ArithmeticOps}
    IN tail \cup {<<PushConst(BoolV(TRUE))>> \o t : t \in tail}

ArithmeticInit ==
    /\ source = NoSource
    /\ bytecode \in ArithmeticPrograms
    /\ vms = (Root :> RootVM(FALSE))
    /\ host = 0
    /\ held = <<>>
    /\ hist = (Root :> NoHist)
    /\ last = Event("init", Root, Op0("none"), 0, Ok, NullV)
    /\ run = "none"

ArithmeticNext == Step(Root)

ArithmeticSpec == ArithmeticInit /\ [][ArithmeticNext]_vars

\* ------------------------------------------------- the ends of the range
\* Two Integer constants at and near the ends of i32 and a binary arithmetic
\* instruction, or one constant and Neg, stepped to the end
Extremes ==
    {IntMin, IntMin + 1, -65536, -2, -1, 0, 1, 2, 31, 32, 46341, IntMax - 1,
     IntMax}

ExtremePrograms ==
    {<<PushConst(IntV(a)), PushConst(IntV(b)), Op0(name)>> :
        a \in Extremes, b \in Extremes, name \in ArithmeticOps}
    \cup {<<PushConst(IntV(a)), Op0("Neg")>> : a \in Extremes}

ExtremeInit ==
    /\ source = NoSource
    /\ bytecode \in ExtremePrograms
    /\ vms = (Root :> RootVM(FALSE))
    /\ host = 0
    /\ held = <<>>
    /\ hist = (Root :> NoHist)
    /\ last = Event("init", Root, Op0("none"), 0, Ok, NullV)
    /\ run = "none"

ExtremeNext == Step(Root)

ExtremeSpec == ExtremeInit /\ [][ExtremeNext]_vars

\* ------------------------------------------------------- operand kinds
\* One or two constants of any kind and an arithmetic instruction, stepped
\* on a VM whose heap holds an Array at address 0
OperandValues ==
    {IntV(0), IntV(3), FloatV(0), FloatV(FloatScale + FloatScale \div 2),
     BoolV(TRUE), RefV(0), NullV}

OperandPrograms ==
    {<<PushConst(a), PushConst(b), Op0(name)>> :
        a \in OperandValues, b \in OperandValues, name \in ArithmeticOps}
    \cup {<<PushConst(a), Op0("Neg")>> : a \in OperandValues}

OperandInit ==
    /\ source = NoSource
    /\ bytecode \in OperandPrograms
    /\ vms = (Root :> RootVM(TRUE))
    /\ host = 0
    /\ held = <<>>
    /\ hist = (Root :> NoHist)
    /\ last = Event("init", Root, Op0("none"), 0, Ok, NullV)
    /\ run = "none"

OperandNext == Step(Root)

OperandSpec == OperandInit /\ [][OperandNext]_vars

\* ------------------------------------------------------------ the compiler
\* A token is a sequence of pieces: a digit, a sign, a dot, or a whole run
\* of other characters (a word), as split_whitespace hands it over.
Digits == {"0", "1", "2", "3", "4", "5", "6", "7", "8", "9"}

DigitValue(c) ==
    CASE c = "0" -> 0 [] c = "1" -> 1 [] c = "2" -> 2 [] c = "3" -> 3
      [] c = "4" -> 4 [] c = "5" -> 5 [] c = "6" -> 6 [] c = "7" -> 7
      [] c = "8" -> 8 [] c = "9" -> 9

Contains(token, c) == \E i \in 1..Len(token) : token[i] = c

AllDigits(d) == d # <<>> /\ \A i \in 1..Len(d) : d[i] \in Digits

RECURSIVE DigitsValue(_)
DigitsValue(d) ==
    IF d = <<>> THEN 0 ELSE 10 * DigitsValue(Front(d)) + DigitValue(Top(d))

\* the token without the sign FromStr accepts in front of it
Unsigned(token, signs) ==
    IF token # <<>> /\ token[1] \in signs THEN Tail(token) ELSE token

\* str::parse::<i32>: an optional + or -, then digits (the tokens here are
\* too short to leave the range of an i32)
ParseI32(token) ==
    IF AllDigits(Unsigned(token, {"+", "-"}))
    THEN [ok |-> TRUE,
          v |-> IF token[1] = "-"
                THEN 0 - DigitsValue(Unsigned(token, {"+", "-"}))
                ELSE DigitsValue(Unsigned(token, {"+", "-"}))]
    ELSE [ok |-> FALSE, v |-> 0]

\* str::parse::<usize>: an optional +, then digits
ParseUsize(token) ==
    IF AllDigits(Unsigned(token, {"+"}))
    THEN [ok |-> TRUE, v |-> DigitsValue(Unsigned(token, {"+"}))]
    ELSE [ok |-> FALSE, v |-> 0]

\* the digits of d before its first dot, and what follows that dot
RECURSIVE BeforeDot(_)
BeforeDot(d) ==
    IF d = <<>> \/ Head(d) = "." THEN <<>>
    ELSE <<Head(d)>> \o BeforeDot(Tail(d))

AfterDot(d) == SubSeq(d, Len(BeforeDot(d)) + 2, Len(d))

\* the first three digits of a fraction, in units of 1/FloatScale
Thousandths(f) == DigitsValue(SubSeq(f \o <<"0", "0", "0">>, 1, 3))

\* str::parse::<f64> of a token made of signs, digits and dots: an optional
\* sign, digits, one dot, digits, with a digit on at least one side
ParseF64Of(token, whole, fraction) ==
    IF /\ whole \o fraction # <<>>
       /\ \A i \in 1..Len(whole) : whole[i] \in Digits
       /\ \A i \in 1..Len(fraction) : fraction[i] \in Digits
    THEN [ok |-> TRUE,
          v |-> (IF token[1] = "-" THEN 0 - 1 ELSE 1)
                * (DigitsValue(whole) * FloatScale + Thousandths(fraction))]
    ELSE [ok |-> FALSE, v |-> 0]

ParseF64(token) ==
    ParseF64Of(token, BeforeDot(Unsigned(token, {"+", "-"})),
               AfterDot(Unsigned(token, {"+", "-"})))

\* the mnemonics that read the next token as their operand
OperandWords ==
    {"StoreVar", "LoadVar", "Jump", "JumpIfFalse", "Call", "SpawnActor",
     "SpawnSupervisor", "SetStrategy", "RestartChild"}

\* the other mnemonics of the match, with the instruction each one pushes
PlainWords ==
    {"Pop", "Dup", "Swap", "+", "Add", "-", "Sub", "*", "Mul", "/", "Div",
     "%", "Mod", "Neg", "Exp", "^", "SendMessage", "ReceiveMessage",
     "Return"}

WordOp(w) ==
    CASE w = "+" -> "Add" [] w = "-" -> "Sub" [] w = "*" -> "Mul"
      [] w = "/" -> "Div" [] w = "%" -> "Mod" [] w = "^" -> "Exp"
      [] OTHER -> w

Failed(kind) == [res |-> kind, code |-> <<>>]

\* a variant that leaves the operand token to be compiled as well
RECURSIVE CompileFromPeeking(_, _)
CompileFromPeeking(tokens, code) ==
    IF tokens = <<>> THEN [res |-> Ok, code |-> code]
    ELSE IF Head(tokens) \in {<<"true">>, <<"false">>}
    THEN CompileFromPeeking(Tail(tokens),
             Append(code, PushConst(BoolV(Head(tokens) = <<"true">>))))
    ELSE IF Contains(Head(tokens), ".")
    THEN IF ParseF64(Head(tokens)).ok
         THEN CompileFromPeeking(Tail(tokens),
                  Append(code, PushConst(FloatV(ParseF64(Head(tokens)).v))))
         ELSE Failed("ParseError")
    ELSE IF ParseI32(Head(tokens)).ok
    THEN CompileFromPeeking(Tail(tokens),
             Append(code, PushConst(IntV(ParseI32(Head(tokens)).v))))
    ELSE IF Len(Head(tokens)) = 1 /\ Head(tokens)[1] \in OperandWords
    THEN IF Tail(tokens) = <<>> THEN Failed("InvalidAddress")
         ELSE IF ParseUsize(tokens[2]).ok
         THEN CompileFromPeeking(Tail(tokens),
                  Append(code, OpN(Head(tokens)[1], ParseUsize(tokens[2]).v)))
         ELSE Failed("InvalidAddress")
    ELSE IF Len(Head(tokens)) = 1 /\ Head(tokens)[1] \in PlainWords
    THEN CompileFromPeeking(Tail(tokens),
             Append(code, Op0(WordOp(Head(tokens)[1]))))
    ELSE Failed("InvalidToken")

\* the loop of Compiler::compile over the tokens left, code being the
\* instructions pushed so far
RECURSIVE CompileFrom(_, _)
CompileFrom(tokens, code) ==
    IF tokens = <<>> THEN [res |-> Ok, code |-> code]
    ELSE IF Head(tokens) \in {<<"true">>, <<"false">>}
    THEN CompileFrom(Tail(tokens),
             Append(code, PushConst(BoolV(Head(tokens) = <<"true">>))))
    ELSE IF Contains(Head(tokens), ".")
    THEN IF ParseF64(Head(tokens)).ok
         THEN CompileFrom(Tail(tokens),
                  Append(code, PushConst(FloatV(ParseF64(Head(tokens)).v))))
         ELSE Failed("ParseError")
    ELSE IF ParseI32(Head(tokens)).ok
    THEN CompileFrom(Tail(tokens),
             Append(code, PushConst(IntV(ParseI32(Head(tokens)).v))))
    ELSE IF Len(Head(tokens)) = 1 /\ Head(tokens)[1] \in OperandWords
    THEN IF Tail(tokens) = <<>> THEN Failed("InvalidAddress")
         ELSE IF ParseUsize(tokens[2]).ok
         THEN CompileFrom(Tail(Tail(tokens)),
                  Append(code, OpN(Head(tokens)[1], ParseUsize(tokens[2]).v)))
         ELSE Failed("InvalidAddress")
    ELSE IF Len(Head(tokens)) = 1 /\ Head(tokens)[1] \in PlainWords
    THEN CompileFrom(Tail(tokens),
             Append(code, Op0(WordOp(Head(tokens)[1]))))
    ELSE Failed("InvalidToken")

\* Compiler::compile
Compile(text) == CompileFrom(text, <<>>)

\* the tokens of the compiler's tests, and their neighbours
Tokens ==
    {<<w>> : w \in OperandWords}
    \cup {<<"Pop">>, <<"+">>, <<"-">>, <<"Return">>, <<"foo">>, <<"true">>}
    \cup {<<"5">>, <<"1", "0">>, <<"-", "5">>, <<"1", ".", "5">>,
          <<"1", ".", ".">>, <<".">>}

Sources == UNION {[1..n -> Tokens] : n \in 0..MaxTokens}

\* lib.rs run / handle_run, at the call of Compiler::compile
CompileInit ==
    /\ source \in Sources
    /\ bytecode = <<>>
    /\ vms = (Root :> RootVM(FALSE))
    /\ host = 0
    /\ held = <<>>
    /\ hist = (Root :> NoHist)
    /\ last = Event("init", Root, Op0("none"), 0, Ok, NullV)
    /\ run = "none"

CompileApply(r) ==
    /\ bytecode' = r.code
    /\ last' = Event("compile", Root, Op0("none"), 0, r.res, NullV)

CompileSource ==
    /\ last.kind = "init"
    /\ CompileApply(Compile(source))
    /\ UNCHANGED <<source, vms, host, held, hist, run>>

CompileNext == CompileSource

CompileSpec == CompileInit /\ [][CompileNext]_vars

\* ------------------------------------------- instructions executed directly
\* The tests that build an ExecutionContext and a Heap by hand and call
\* OpCode::execute on instructions of their own: nothing is fetched and ip
\* is not advanced
DirectInit ==
    /\ source = NoSource
    /\ bytecode \in {<<>>, <<Op0("Pop")>>}
    /\ vms = (Root :> RootVM(FALSE))
    /\ host = 0
    /\ held = <<>>
    /\ hist = (Root :> NoHist)
    /\ last = Event("init", Root, Op0("none"), 0, Ok, NullV)
    /\ run = "none"

ExecuteApply(op, r) ==
    /\ op.op = "ReceiveMessage" => RecvReady(vms[Root])
    /\ op.op = "SendMessage" => SendReady(vms, Root)
    /\ Bounded(r.S)
    /\ Len(held) < MaxQueue
    /\ r.S[Root].next_address <= MaxAllocations
    /\ \A q \in DOMAIN r.S : Len(r.S[q].queue) <= MaxQueue
    /\ \A a \in DOMAIN r.S[Root].objects :
           r.S[Root].objects[a].rc <= MaxCount
    /\ vms' = r.S
    /\ hist' = HistFor(r.S, hist)
    /\ held' = IF r.res = "ChannelSend"
               THEN Append(held, [vm |-> Root, val |-> r.val]) ELSE held
    /\ last' = Event("execute", Root, op, vms[Root].ip, r.res, r.val)

ExecuteDirect(op) ==
    /\ ExecuteApply(op, Execute(vms, Root, op))
    /\ UNCHANGED <<source, bytecode, host, run>>

\* the instructions those tests execute, with the values they push by hand;
\* JumpIfFalse(99) is their target past the end of the vector
DirectOps ==
    {PushConst(IntV(42)), PushConst(BoolV(TRUE)), Op0("Pop"), Op0("Dup"),
     Op0("Swap"), OpN("JumpIfFalse", 0), OpN("JumpIfFalse", MaxTarget),
     OpN("SpawnActor", 0), Op0("SendMessage"), Op0("ReceiveMessage")}

DirectNext == \E op \in DirectOps : ExecuteDirect(op)

DirectSpec == DirectInit /\ [][DirectNext]_vars

\* ------------------------------------------------------- a flooded mailbox
\* A test harness that steps a VM through a flood program, and takes values
\* out of the spawned actor's mailbox as the tests do
MailboxInit ==
    /\ source = NoSource
    /\ bytecode = Flood(FloodSends)
    /\ vms = (Root :> RootVM(FALSE))
    /\ host = 0
    /\ held = <<>>
    /\ hist = (Root :> NoHist)
    /\ last = Event("init", Root, Op0("none"), 0, Ok, NullV)
    /\ run = "none"

MailboxSpec == MailboxInit /\ [][Next]_vars

\* ------------------------------------------------- stepped, or run by run
\* A VM is either stepped by a harness (run = "none") or handed to VM::run
DrivenInit == Init \/ RunInit

DrivenNext ==
    \/ run = "none" /\ Next
    \/ run # "none" /\ RunNext

DrivenSpec == DrivenInit /\ [][DrivenNext]_vars

\* ---------------------------------------------------------- the heap alone
\* The Heap of one VM used through its own interface, as the tests do:
\* allocate, get_mut(..).increment_ref / decrement_ref, collect_garbage
HeapKinds ==
    {"Array", "String", "Module", "NativeFunction", "Actor", "Supervisor"}

HeapInit ==
    /\ source = NoSource
    /\ bytecode = <<>>
    /\ vms = (Root :> RootVM(FALSE))
    /\ host = 0
    /\ held = <<>>
    /\ hist = (Root :> NoHist)
    /\ last = Event("init", Root, Op0("none"), 0, Ok, NullV)
    /\ run = "none"

\* the heap after allocate(object): an Actor or Supervisor object holds a VM
HeapWith(S, kind) ==
    [q \in DOMAIN S \cup (IF kind \in {"Actor", "Supervisor"}
                          THEN {<<S[Root].next_address>>} ELSE {}) |->
        IF q = Root THEN Allocate(S[Root], kind)
        ELSE IF q \in DOMAIN S THEN S[q] ELSE NewVM(0)]

\* heap.allocate(object), the object's count being 0
HeapAllocate(kind) ==
    /\ vms[Root].next_address < MaxAllocations
    /\ GcApply(HeapWith(vms, kind))
    /\ last' = Event("allocate", Root, OpN("none", vms[Root].next_address),
                     0, Ok, NullV)
    /\ UNCHANGED <<source, bytecode, host, held, run>>

\* the event of a count operation on address a: the count it found
CountEvent(kind, a, res) ==
    Event(kind, Root, OpN("none", a), 0, res,
          IF HeapGet(vms[Root], a) THEN IntV(vms[Root].objects[a].rc)
          ELSE NullV)

CountApply(kind, a, r) ==
    /\ vms' = [vms EXCEPT ![Root] = r.m]
    /\ last' = CountEvent(kind, a, r.res)

\* heap.get_mut(a) then HeapObject::increment_ref
HeapIncrement(a) ==
    /\ HeapGet(vms[Root], a) => vms[Root].objects[a].rc < MaxCount
    /\ CountApply("increment_ref", a, IncrementReference(vms[Root], a))
    /\ UNCHANGED <<source, bytecode, host, held, hist, run>>

\* heap.get_mut(a) then HeapObject::decrement_ref
HeapDecrement(a) ==
    /\ CountApply("decrement_ref", a, DecrementReference(vms[Root], a))
    /\ UNCHANGED <<source, bytecode, host, held, hist, run>>

HeapNext ==
    \/ \E kind \in HeapKinds : HeapAllocate(kind)
    \/ \E a \in 0..(MaxAllocations - 1) : HeapIncrement(a)
    \/ \E a \in 0..(MaxAllocations - 1) : HeapDecrement(a)
    \/ CollectGarbage(Root)

HeapSpec == HeapInit /\ [][HeapNext]_vars

\* ================================================================= claims
Occ(seq, v) == Cardinality({i \in 1..Len(seq) : seq[i] = v})
OccLocals(l, v) == Cardinality({i \in DOMAIN l : l[i] = v})
Rc(S, p, a) == S[p].objects[a].rc
IsStep(ev, name) == ev.kind = "step" /\ ev.op.op = name

Children(p) == {c \in DOMAIN vms : Len(c) = Len(p) + 1 /\ IsPrefix(p, c)}

RECURSIVE InQueues(_, _)
InQueues(cs, v) ==
    IF cs = {} THEN 0
    ELSE LET c == CHOOSE x \in cs : TRUE
         IN Occ(vms[c].queue, v) + InQueues(cs \ {c}, v)

\* The holders of address a of VM p's heap: p's stack and locals, the
\* mailbox slots filled by p's SendMessage (the mailboxes of p's children,
\* and the root's own mailbox for a relayed message), the errors p returned.
Holders(p, a) ==
    Occ(vms[p].stack, RefV(a)) + OccLocals(vms[p].locals, RefV(a))
    + InQueues(Children(p) \cup (IF p = Root THEN {Root} ELSE {}), RefV(a))
    + Occ(held, [vm |-> p, val |-> RefV(a)])

\* C1: at every quiescent point the reference count of every heap address
\* equals the number of its occurrences in the stack, the locals, the
\* in-flight mailbox slots and the held error values of its VM.
C1_CountEqualsHolders ==
    \A p \in DOMAIN vms : \A a \in DOMAIN vms[p].objects :
        Rc(vms, p, a) = Holders(p, a)

\* C2: SpawnActor leaves a Reference of count 1 on the stack; a Dup with a
\* Reference on top raises its count by exactly 1, a Pop of it lowers the
\* count by exactly 1; collect_garbage removes every object of count 0, and
\* a collected address stays absent from the heap.
C2_Step ==
    LET p == last'.vm
    IN /\ (IsStep(last', "SpawnActor") /\ last'.res = Ok) =>
              /\ Top(vms'[p].stack) = RefV(vms[p].next_address)
              /\ Rc(vms', p, vms[p].next_address) = 1
       /\ (IsStep(last', "Dup") /\ last'.res = Ok /\ IsRef(Top(vms[p].stack))) =>
              Rc(vms', p, Top(vms[p].stack).v) = Rc(vms, p, Top(vms[p].stack).v) + 1
       /\ (IsStep(last', "Pop") /\ last'.res = Ok /\ IsRef(Top(vms[p].stack))) =>
              Rc(vms', p, Top(vms[p].stack).v) = Rc(vms, p, Top(vms[p].stack).v) - 1
       /\ last'.kind = "gc" =>
              \A a \in DOMAIN vms[p].objects :
                  Rc(vms, p, a) = 0 => a \notin DOMAIN vms'[p].objects
       /\ \A q \in DOMAIN vms \cap DOMAIN vms' :
              \A a \in 0..(vms[q].next_address - 1) :
                  a \notin DOMAIN vms[q].objects => a \notin DOMAIN vms'[q].objects

C3_Step ==
    LET p == last'.vm
        owner == IF p = Root THEN Root ELSE Front(p)
    IN /\ (IsStep(last', "SendMessage") /\ last'.res = Ok
           /\ IsRef(vms[p].stack[Len(vms[p].stack) - 1])) =>
              Rc(vms', p, vms[p].stack[Len(vms[p].stack) - 1].v)
                  = Rc(vms, p, vms[p].stack[Len(vms[p].stack) - 1].v)
       /\ (IsStep(last', "ReceiveMessage") /\ vms[p].queue # <<>>
           /\ IsRef(Head(vms[p].queue))) =>
              /\ last'.res = Ok
              /\ Top(vms'[p].stack) = Head(vms[p].queue)
              /\ Rc(vms', owner, Head(vms[p].queue).v)
                     = Rc(vms, owner, Head(vms[p].queue).v)

C3_SendReceiveNetZero == [][C3_Step]_vars

\* C4: a SendMessage to a closed mailbox returns ChannelSend with the popped
\* message, enqueues nothing, and leaves a Reference message counted for the
\* channel slot (count 1 when the stack slot was its only holder), so that
\* the collect_garbage that follows keeps the object.
C4_Step ==
    LET p == last'.vm
        A == Top(vms[p].stack)
        M == vms[p].stack[Len(vms[p].stack) - 1]
    IN /\ (IsStep(last', "SendMessage") /\ last'.res = "ChannelSend") =>
              /\ last'.val = M
              /\ Top(held') = [vm |-> p, val |-> M]
              /\ \A q \in DOMAIN vms : vms'[q].queue = vms[q].queue
              /\ IsRef(M) =>
                    /\ Rc(vms', p, M.v) >= 1
                    /\ Rc(vms', p, M.v)
                          = Rc(vms, p, M.v) - (IF A = M THEN 1 ELSE 0)
       /\ (last'.kind = "gc" /\ IsStep(last, "SendMessage")
           /\ last.res = "ChannelSend" /\ last.vm = p /\ IsRef(last.val)) =>
              /\ last.val.v \in DOMAIN vms'[p].objects
              /\ Rc(vms', p, last.val.v) = Rc(vms, p, last.val.v)

C4_FailedSendKeepsMessage == [][C4_Step]_vars

\* the failed send of the test: the Array message survives the collection
C4_Witness ==
    /\ last.kind = "gc"
    /\ held = <<[vm |-> Root, val |-> RefV(0)]>>
    /\ 0 \in DOMAIN vms[Root].objects
    /\ Rc(vms, Root, 0) = 1
    /\ vms[Root].stack = <<>>

\* C5: a SendMessage that faults ChannelSend does not push the actor
\* reference back: the stack has lost both operands, the actor's count is
\* one lower than before, and an actor left with count 0 is removed (with
\* its VM) by the collect_garbage that follows.
C5_Step ==
    LET p == last'.vm
        A == Top(vms[p].stack)
        M == vms[p].stack[Len(vms[p].stack) - 1]
    IN /\ (IsStep(last', "SendMessage") /\ last'.res = "ChannelSend") =>
              /\ vms'[p].stack = Front(Front(vms[p].stack))
              /\ Rc(vms', p, A.v) = Rc(vms, p, A.v) - 1
       /\ (last'.kind = "gc" /\ IsStep(last, "SendMessage")
           /\ last.res = "ChannelSend" /\ last.vm = p) =>
              \A a \in DOMAIN vms[p].objects :
                  (vms[p].objects[a].kind = "Actor" /\ Rc(vms, p, a) = 0) =>
                      /\ a \notin DOMAIN vms'[p].objects
                      /\ (p \o <<a>>) \notin DOMAIN vms'

C5_FailedSendDropsActor == [][C5_Step]_vars

\* the failed send of the test, then the collection: the actor is gone
C5_Witness ==
    /\ last.kind = "gc"
    /\ held = <<[vm |-> Root, val |-> RefV(0)]>>
    /\ 1 \notin DOMAIN vms[Root].objects
    /\ vms[Root].next_address = 2
    /\ DOMAIN vms = {Root}

\* C6 as stated: Jump(t), and JumpIfFalse(t) with any Boolean on top of the
\* stack, succeed exactly when t <= n; Call(t), SpawnActor(t) and
\* SpawnSupervisor(t) succeed exactly when t < n; the fault is
\* ExecutionOutOfBounds.
C6_StatedStep ==
    LET p == last'.vm
        t == last'.op.n
        n == Len(bytecode)
    IN last'.kind = "step" =>
        /\ last'.op.op = "Jump" =>
              /\ last'.res = Ok <=> t <= n
              /\ last'.res \in {Ok, "ExecutionOutOfBounds"}
        /\ (last'.op.op = "JumpIfFalse" /\ vms[p].stack # <<>>
            /\ Top(vms[p].stack).t = "Boolean") =>
              /\ last'.res = Ok <=> t <= n
              /\ last'.res \in {Ok, "ExecutionOutOfBounds"}
        /\ last'.op.op \in {"Call", "SpawnActor", "SpawnSupervisor"} =>
              /\ last'.res = Ok <=> t < n
              /\ last'.res \in {Ok, "ExecutionOutOfBounds"}

C6_TargetBoundsAsStated == [][C6_StatedStep]_vars

\* C6, amended: Jump(t), and JumpIfFalse(t) that popped Boolean(false),
\* succeed exactly when t <= n; JumpIfFalse(t) that popped Boolean(true)
\* succeeds for every t; Call(t), SpawnActor(t) and SpawnSupervisor(t)
\* succeed exactly when t < n; every fault of these is ExecutionOutOfBounds.
C6_Step ==
    LET p == last'.vm
        t == last'.op.n
        n == Len(bytecode)
    IN last'.kind = "step" =>
        /\ last'.op.op = "Jump" =>
              /\ last'.res = Ok <=> t <= n
              /\ last'.res \in {Ok, "ExecutionOutOfBounds"}
        /\ (last'.op.op = "JumpIfFalse" /\ vms[p].stack # <<>>
            /\ Top(vms[p].stack) = BoolV(FALSE)) =>
              /\ last'.res = Ok <=> t <= n
              /\ last'.res \in {Ok, "ExecutionOutOfBounds"}
        /\ (last'.op.op = "JumpIfFalse" /\ vms[p].stack # <<>>
            /\ Top(vms[p].stack) = BoolV(TRUE)) =>
              last'.res = Ok
        /\ last'.op.op \in {"Call", "SpawnActor", "SpawnSupervisor"} =>
              /\ last'.res = Ok <=> t < n
              /\ last'.res \in {Ok, "ExecutionOutOfBounds"}

C6_TargetBounds == [][C6_Step]_vars

\* JumpIfFalse has popped Boolean(true) and succeeded with a target beyond
\* the end of the instruction vector
C6_Witness ==
    /\ IsStep(last, "JumpIfFalse")
    /\ last.res = Ok
    /\ last.op.n > Len(bytecode)
    /\ vms[last.vm].ip = last.ip + 1

\* C7: a successful Call(t) at index i leaves i+1 on top of the call stack
\* and IP at t; a successful Return resumes at the instruction that follows
\* a Call, and so does not run that Call again.
C7_Step ==
    LET p == last'.vm
    IN /\ (IsStep(last', "Call") /\ last'.res = Ok) =>
              /\ Top(vms'[p].call_stack) = last'.ip + 1
              /\ vms'[p].ip = last'.op.n
       /\ (IsStep(last', "Return") /\ last'.res = Ok) =>
              /\ vms'[p].ip >= 1
              /\ bytecode[vms'[p].ip].op = "Call"

C7_CallReturnResumesAfterCall == [][C7_Step]_vars

\* C8: a successful Jump(t), or JumpIfFalse(t) that popped Boolean(false),
\* leaves IP at exactly t, wherever the instruction itself sits.
C8_Step ==
    LET p == last'.vm
    IN /\ (IsStep(last', "Jump") /\ last'.res = Ok) =>
              vms'[p].ip = last'.op.n
       /\ (IsStep(last', "JumpIfFalse") /\ last'.res = Ok
           /\ Top(vms[p].stack) = BoolV(FALSE)) =>
              vms'[p].ip = last'.op.n

C8_JumpLandsOnTarget == [][C8_Step]_vars

\* C9: the values a VM's ReceiveMessage instructions have pushed are a
\* prefix of the values sent to its mailbox, in send order: none lost,
\* duplicated or reordered (mailboxes the harness took values from aside).
C9_ReceivedIsPrefixOfSent ==
    \A p \in DOMAIN vms :
        ~hist[p].relayed => IsPrefix(hist[p].pushed, hist[p].sent)

\* C10: ReceiveMessage faults only with MailboxEmpty, and only when the
\* mailbox was closed or had no sender left, and held no queued value.
C10_Step ==
    LET p == last'.vm
    IN (IsStep(last', "ReceiveMessage") /\ last'.res # Ok) =>
          /\ last'.res = "MailboxEmpty"
          /\ vms[p].rx_closed \/ ~vms[p].tx_alive
          /\ vms[p].queue = <<>>

C10_ReceiveFaultsOnlyWhenClosedAndEmpty == [][C10_Step]_vars

\* the VM that VM::run drives is parked in ReceiveMessage: its mailbox is
\* empty and open, and a sender is still alive
Awaiting ==
    /\ run = "running"
    /\ vms[Root].ip < Len(bytecode)
    /\ bytecode[vms[Root].ip + 1].op = "ReceiveMessage"
    /\ ~RecvReady(vms[Root])

\* C11: a VM suspended in ReceiveMessage on an empty mailbox eventually
\* leaves the suspension, by a value arriving or by the MailboxEmpty fault
\* once no sender is left; it never stays suspended forever.
C11_SuspendedReceiveEnds == Awaiting ~> ~Awaiting

\* no Jump, JumpIfFalse, Call or Return, and no ReceiveMessage
StraightLine(prog) ==
    \A i \in 1..Len(prog) :
        prog[i].op \notin {"Jump", "JumpIfFalse", "Call", "Return",
                           "ReceiveMessage"}

SendCount(prog) ==
    Cardinality({i \in 1..Len(prog) : prog[i].op = "SendMessage"})

Finished == run \notin {"ready", "running"}

Parked ==
    /\ run = "running"
    /\ vms[Root].ip < Len(bytecode)
    /\ \E r \in {StepResult(vms, Root)} : Bounded(r.S)
    /\ ~ENABLED RunStep

\* the VM waits in SendMessage: the recipient's mailbox is open and holds
\* MailboxCapacity values
ParkedInSend ==
    /\ bytecode[vms[Root].ip + 1].op = "SendMessage"
    /\ Len(vms[Root].stack) >= 2
    /\ IsRef(Top(vms[Root].stack))
    /\ <<Top(vms[Root].stack).v>> \in DOMAIN vms
    /\ ~vms[<<Top(vms[Root].stack).v>>].rx_closed
    /\ Len(vms[<<Top(vms[Root].stack).v>>].queue) = MailboxCapacity

C12_ParkedOnlyInReceiveOrFullSend ==
    Parked => \/ bytecode[vms[Root].ip + 1].op = "ReceiveMessage"
              \/ ParkedInSend

SendReaches(p) ==
    /\ vms[p].ip < Len(bytecode)
    /\ bytecode[vms[p].ip + 1].op = "SendMessage"
    /\ Len(vms[p].stack) >= 2
    /\ IsRef(Top(vms[p].stack))
    /\ HeapGet(vms[p], Top(vms[p].stack).v)
    /\ vms[p].objects[Top(vms[p].stack).v].kind = "Actor"
    /\ IsRef(vms[p].stack[Len(vms[p].stack) - 1]) =>
           HeapGet(vms[p], vms[p].stack[Len(vms[p].stack) - 1].v)
    /\ ~vms[p \o <<Top(vms[p].stack).v>>].rx_closed

Recipient(p) == p \o <<Top(vms[p].stack).v>>

C13_State ==
    /\ \A p \in DOMAIN vms : Len(vms[p].queue) <= MailboxCapacity
    /\ \A p \in DOMAIN vms :
           SendReaches(p) =>
               (ENABLED Step(p) <=> Len(vms[Recipient(p)].queue) < MailboxCapacity)

C13_Step ==
    /\ \A p \in DOMAIN vms :
           (SendReaches(p) /\ Len(vms[Recipient(p)].queue) = MailboxCapacity) =>
               /\ ~(last'.kind = "step" /\ last'.vm = p)
               /\ vms'[p].ip = vms[p].ip
               /\ vms'[p].stack = vms[p].stack
               /\ \/ vms'[Recipient(p)].queue = vms[Recipient(p)].queue
                  \/ /\ last'.kind = "relay"
                     /\ vms'[Recipient(p)].queue = Tail(vms[Recipient(p)].queue)
    /\ (IsStep(last', "SendMessage") /\ last'.res = Ok) =>
           /\ Len(vms[Recipient(last'.vm)].queue) < MailboxCapacity
           /\ vms'[Recipient(last'.vm)].queue =
                  Append(vms[Recipient(last'.vm)].queue,
                         vms[last'.vm].stack[Len(vms[last'.vm].stack) - 1])

AtEnd == run = "running" /\ vms[Root].ip = Len(bytecode)

C14_State ==
    /\ run = "NoBytecode" <=> (bytecode = <<>> /\ run # "ready")
    /\ bytecode = <<>> =>
           /\ vms[Root].ip = 0 /\ vms[Root].stack = <<>>
           /\ vms[Root].objects = EmptyObjects
           /\ hist[Root].pushed = <<>>
    /\ run = "running" => (last.kind = "step" => last.res = Ok)
    /\ run = Ok => vms[Root].ip = Len(bytecode)
    /\ AtEnd => ENABLED RunReturn /\ ~ENABLED RunStep

C14_Step ==
    /\ last'.kind = "step" =>
           /\ run = "running" /\ vms[Root].ip < Len(bytecode)
           /\ run' = (IF last'.res = Ok THEN "running" ELSE last'.res)
    /\ (run' = Ok /\ run # Ok) =>
           /\ AtEnd
           /\ vms' = vms
    /\ (IsStep(last', "Jump") /\ last'.op.n = Len(bytecode)) =>
           /\ last'.res = Ok
           /\ AtEnd'

\* C14: run faults NoBytecode, with nothing executed, exactly on the empty
\* instruction vector; otherwise it steps only while ip < length and returns
\* Ok exactly from ip = length with no faulted step, which a Jump to the
\* length brings about.
C14_RunHaltsCleanlyAtLength ==
    /\ []C14_State
    /\ [][C14_Step]_vars
    /\ AtEnd ~> (run = Ok)

\* run returned Ok after a Jump to the length of the program
C14_Witness ==
    /\ run = Ok
    /\ last.kind = "run_return"
    /\ bytecode = <<PushConst(IntV(42)), OpN("Jump", 2)>>
    /\ vms[Root].stack = <<IntV(42)>>

InRange(a) == a \in 0..Len(bytecode)

C15_State ==
    \A p \in DOMAIN vms :
        /\ InRange(vms[p].ip)
        /\ \A i \in 1..Len(vms[p].call_stack) : InRange(vms[p].call_stack[i])
        /\ (run = "none" /\ vms[p].ip >= Len(bytecode)) => ENABLED Step(p)

C15_Step ==
    /\ (last'.kind = "step" /\ run # "none") =>
           /\ last'.vm = Root
           /\ vms[Root].ip < Len(bytecode)
    /\ (last'.kind = "step" /\ vms[last'.vm].ip >= Len(bytecode)) =>
           /\ last'.res = "ExecutionOutOfBounds"
           /\ vms' = vms /\ held' = held /\ hist' = hist
    /\ \A p \in DOMAIN vms' \ DOMAIN vms :
           vms'[p].ip < Len(bytecode)

Faulted(result) == result \notin {"none", "ready", "running", Ok}

C16_Step ==
    /\ (last'.kind = "step" /\ last'.res # Ok) =>
           /\ run = "running"
           /\ run' = last'.res
           /\ vms'[Root].ip = vms[Root].ip
    /\ Faulted(run) =>
           /\ run' = run
           /\ last'.kind # "step"
           /\ vms'[Root].ip = vms[Root].ip
           /\ vms'[Root].stack = vms[Root].stack
           /\ vms'[Root].objects = vms[Root].objects
           /\ hist'[Root].pushed = hist[Root].pushed
    /\ (Faulted(run') /\ run' # "NoBytecode") =>
           \/ run' = run
           \/ last'.kind = "step" /\ last'.res = run'

\* C16: the first step that faults ends run: run's result is that fault,
\* and from then on the VM executes nothing, the faulting instruction
\* included.
C16_FirstFaultEndsRun == [][C16_Step]_vars

\* run returned the fault of Div, and the host task went on afterwards
C16_Witness ==
    /\ run = Message("Division by zero")
    /\ bytecode = <<PushConst(IntV(42)), PushConst(IntV(0)), Op0("Div")>>
    /\ vms[Root].ip = 2
    /\ last.kind = "host_send"

\* the References that VM p holds on its stack and in its locals
HeldRefs(p) ==
    {vms[p].stack[i].v : i \in {j \in 1..Len(vms[p].stack) : IsRef(vms[p].stack[j])}}
    \cup {vms[p].locals[i].v : i \in {j \in DOMAIN vms[p].locals : IsRef(vms[p].locals[j])}}

\* C17: whatever instructions and collections have happened, every
\* Reference on the stack or in the locals of a VM resolves in its heap.
C17_HeldReferencesResolve ==
    \A p \in DOMAIN vms : \A a \in HeldRefs(p) : HeapGet(vms[p], a)

\* the VMs held by the objects of VM p's heap at the addresses as
HeldBy(S, p, as) ==
    {q \in DOMAIN S : \E a \in as : IsPrefix(p \o <<a>>, q)}

C18_Step ==
    LET p == last'.vm
        zero == {a \in DOMAIN vms[p].objects : Rc(vms, p, a) = 0}
        live == {a \in DOMAIN vms[p].objects : Rc(vms, p, a) > 0}
    IN last'.kind = "gc" =>
          /\ DOMAIN vms'[p].objects = live
          /\ \A a \in zero : a \notin DOMAIN vms'[p].objects
          /\ \A a \in live : vms'[p].objects[a] = vms[p].objects[a]
          /\ \A q \in HeldBy(vms, p, live) : q \in DOMAIN vms' /\ vms'[q] = vms[q]
          /\ \A q \in HeldBy(vms, p, zero) : q \notin DOMAIN vms'

\* C18: collect_garbage removes exactly the entries of count 0: each of
\* them is absent afterwards (with the VM it held), and each entry of
\* count > 0 is still present with the same count and contents.
C18_CollectRemovesExactlyZeroCounts == [][C18_Step]_vars

\* a collection has removed an object and kept another one
C18_Witness ==
    /\ last.kind = "gc"
    /\ vms[last.vm].objects # EmptyObjects
    /\ \E a \in 0..(vms[last.vm].next_address - 1) :
           a \notin DOMAIN vms[last.vm].objects

\* the system after collect_garbage on VM p of system S
Once(S, p) == Collected(S, p, Retained(S[p]))

NoZeroCount(m) == \A a \in DOMAIN m.objects : m.objects[a].rc > 0

C19_State ==
    \A p \in DOMAIN vms :
        /\ Once(Once(vms, p), p) = Once(vms, p)
        /\ NoZeroCount(vms[p]) => Once(vms, p) = vms

C19_Step ==
    last'.kind = "gc" =>
        /\ NoZeroCount(vms[last'.vm]) => vms' = vms
        /\ (last.kind = "gc" /\ last.vm = last'.vm) => vms' = vms
        /\ NoZeroCount(vms'[last'.vm])

\* C19: collect_garbage changes nothing on a heap without an entry of
\* count 0, and a second call right after a first changes nothing: entries,
\* counts and next_address are those the first call left.
C19_CollectIsIdempotent == []C19_State /\ [][C19_Step]_vars

\* a collection on a heap that had entries of count 0 and of count > 0,
\* after which a second one finds nothing to do
C19_Witness ==
    /\ last.kind = "gc"
    /\ NoZeroCount(vms[last.vm])
    /\ Cardinality(DOMAIN vms[last.vm].objects) = 1
    /\ vms[last.vm].next_address = 2
    /\ Once(vms, last.vm) = vms

C20_State ==
    \A p \in DOMAIN vms : \A a \in DOMAIN vms[p].objects :
        a < vms[p].next_address

C20_Step ==
    LET p == last'.vm
    IN /\ ((IsStep(last', "SpawnActor") \/ IsStep(last', "SpawnSupervisor"))
            /\ last'.res = Ok) =>
              /\ Top(vms'[p].stack) = RefV(vms[p].next_address)
              /\ DOMAIN vms'[p].objects =
                     DOMAIN vms[p].objects \cup {vms[p].next_address}
              /\ \A a \in DOMAIN vms[p].objects : a < vms[p].next_address
              /\ vms'[p].next_address = vms[p].next_address + 1
       /\ last'.kind = "gc" =>
              vms'[p].next_address = vms[p].next_address
       /\ \A q \in DOMAIN vms \cap DOMAIN vms' :
              /\ vms'[q].next_address >= vms[q].next_address
              /\ \A a \in DOMAIN vms'[q].objects \ DOMAIN vms[q].objects :
                     a >= vms[q].next_address

\* C20: every allocation returns next_address, which lies above every
\* address the heap holds or ever held, and advances it by one;
\* collect_garbage leaves next_address alone, so an address is never
\* handed out twice, collected or not.
C20_AddressesNeverReused == []C20_State /\ [][C20_Step]_vars

\* the second actor is spawned after the first was popped and collected:
\* it gets address 1 although address 0 is free
C20_Witness ==
    /\ IsStep(last, "SpawnActor") /\ last.res = Ok /\ last.vm = Root
    /\ bytecode = <<OpN("SpawnActor", 1), Op0("Pop"), OpN("SpawnActor", 1)>>
    /\ DOMAIN vms[Root].objects = {1}
    /\ vms[Root].stack = <<RefV(1)>>


C21_State ==
    \A p \in DOMAIN vms : \A a \in DOMAIN vms[p].objects :
        vms[p].objects[a].rc >= 0

C21_Step ==
    LET a == last'.op.n
        old == vms[Root].objects
        new == vms'[Root].objects
    IN (last'.kind = "decrement_ref" /\ last'.res = Ok) =>
          /\ DOMAIN new = DOMAIN old
          /\ old[a].rc = 0 => new[a].rc = 0
          /\ old[a].rc > 0 => new[a].rc = old[a].rc - 1
          /\ new[a].kind = old[a].kind
          /\ \A b \in DOMAIN old \ {a} : new[b] = old[b]

\* C21: no reference count is ever below zero; decrement_ref leaves a count
\* of 0 at 0 and takes a count c > 0 to c - 1, whatever the variant of the
\* object, and touches no other object.
C21_DecrementSaturatesAtZero == []C21_State /\ [][C21_Step]_vars

\* decrement_ref has found a Module object with count 0 and left it at 0
C21_Witness ==
    /\ last.kind = "decrement_ref" /\ last.res = Ok
    /\ last.val = IntV(0)
    /\ vms[Root].objects[last.op.n] = [kind |-> "Module", rc |-> 0]


\* the count that decrement_ref leaves
Decremented(c) == IF c > 0 THEN c - 1 ELSE 0

C22_Step ==
    LET p == last'.vm
        top == Top(vms[p].stack)
        resolves == IsRef(top) => HeapGet(vms[p], top.v)
    IN IsStep(last', "JumpIfFalse") =>
          /\ vms[p].stack = <<>> =>
                 last'.res = "StackUnderflow" /\ vms' = vms
          /\ vms[p].stack # <<>> =>
                 /\ vms'[p].stack = Front(vms[p].stack)
                 /\ (top.t # "Boolean" /\ resolves) => last'.res = "TypeMismatch"
                 /\ (IsRef(top) /\ resolves) =>
                        /\ Rc(vms', p, top.v) = Decremented(Rc(vms, p, top.v))
                        /\ Rc(vms', p, top.v) = 0 =>
                               top.v \notin DOMAIN Once(vms', p)[p].objects

\* C22: JumpIfFalse faults StackUnderflow on an empty stack; otherwise it
\* removes the top value whatever the outcome, decrements the count of a
\* Reference operand also when it faults TypeMismatch for a non-Boolean, and
\* a collection then removes the object if no holder is left.
C22_JumpIfFalsePopsFirst == [][C22_Step]_vars

\* the actor whose only reference JumpIfFalse consumed has been collected
C22_Witness ==
    /\ last.kind = "gc" /\ last.vm = Root
    /\ bytecode = <<OpN("SpawnActor", 0), OpN("JumpIfFalse", 0)>>
    /\ vms[Root].ip = 1
    /\ vms[Root].stack = <<>>
    /\ vms[Root].objects = EmptyObjects


\* VM p holds a Reference at local i whose object is in its heap
LocalRef(p, i) ==
    /\ i \in DOMAIN vms[p].locals
    /\ IsRef(vms[p].locals[i])
    /\ HeapGet(vms[p], vms[p].locals[i].v)

\* the effects of StoreVar that do not concern the counts
C23_Moves ==
    LET p == last'.vm
        i == last'.op.n
    IN IsStep(last', "StoreVar") =>
          /\ vms[p].stack = <<>> =>
                 last'.res = "StackUnderflow" /\ vms' = vms
          /\ last'.res = Ok =>
                 /\ vms'[p].stack = Front(vms[p].stack)
                 /\ DOMAIN vms'[p].locals = DOMAIN vms[p].locals \cup {i}
                 /\ vms'[p].locals[i] = Top(vms[p].stack)
                 /\ \A j \in DOMAIN vms[p].locals \ {i} :
                        vms'[p].locals[j] = vms[p].locals[j]

C23_StatedStep ==
    LET p == last'.vm
        i == last'.op.n
        top == Top(vms[p].stack)
    IN /\ C23_Moves
       /\ (IsStep(last', "StoreVar") /\ last'.res = Ok) =>
             /\ (LocalRef(p, i) /\ Rc(vms, p, vms[p].locals[i].v) > 0) =>
                    Rc(vms', p, vms[p].locals[i].v) =
                        Rc(vms, p, vms[p].locals[i].v) - 1
             /\ (IsRef(top) /\ Rc(vms, p, top.v) > 0) =>
                    Rc(vms', p, top.v) = Rc(vms, p, top.v)

C23_Step ==
    LET p == last'.vm
        i == last'.op.n
        top == Top(vms[p].stack)
    IN /\ C23_Moves
       /\ (IsStep(last', "StoreVar") /\ last'.res = Ok) =>
             /\ (LocalRef(p, i) /\ Rc(vms, p, vms[p].locals[i].v) > 0) =>
                    Rc(vms', p, vms[p].locals[i].v) =
                        Rc(vms, p, vms[p].locals[i].v) - 1
             /\ (IsRef(top) /\ Rc(vms, p, top.v) > 0
                 /\ ~(LocalRef(p, i) /\ vms[p].locals[i] = top)) =>
                    Rc(vms', p, top.v) = Rc(vms, p, top.v)

C24_Step ==
    LET p == last'.vm
        a == vms[p].next_address
        c == p \o <<a>>
    IN IsStep(last', "SpawnActor") =>
          /\ last'.res = Ok <=> last'.op.n < Len(bytecode)
          /\ last'.res = Ok =>
                 /\ a \notin DOMAIN vms[p].objects
                 /\ DOMAIN vms'[p].objects = DOMAIN vms[p].objects \cup {a}
                 /\ vms'[p].objects[a] = [kind |-> "Actor", rc |-> 1]
                 /\ \A b \in DOMAIN vms[p].objects :
                        vms'[p].objects[b] = vms[p].objects[b]
                 /\ vms'[p].stack = Append(vms[p].stack, RefV(a))
                 /\ c \notin DOMAIN vms
                 /\ DOMAIN vms' = DOMAIN vms \cup {c}
                 /\ vms'[c].ip = last'.op.n
                 /\ vms'[c].stack = <<>> /\ vms'[c].call_stack = <<>>
                 /\ vms'[c].locals = EmptyLocals
                 /\ vms'[c].objects = EmptyObjects /\ vms'[c].next_address = 0
                 /\ vms'[c].queue = <<>>
                 /\ ~vms'[c].rx_closed /\ vms'[c].tx_alive
          /\ last'.res # Ok =>
                 /\ last'.res = "ExecutionOutOfBounds"
                 /\ vms' = vms

\* C24: a successful SpawnActor(entry) adds exactly one Actor object, at
\* next_address, holding a new VM with ip = entry, empty stack, locals, heap
\* and mailbox, and pushes one Reference to it, of count 1; a SpawnActor
\* that faults leaves heap, next_address and stack as they were.
C24_SpawnActorAllocatesOne == [][C24_Step]_vars

\* a spawned actor has spawned an actor of its own
C24_Witness ==
    /\ IsStep(last, "SpawnActor") /\ last.res = Ok
    /\ last.vm = <<0>>
    /\ <<0, 0>> \in DOMAIN vms
    /\ vms[<<0, 0>>].ip = last.op.n
    /\ Top(vms[<<0>>].stack) = RefV(0)


\* what a VM owns apart from its mailbox
Private(m) ==
    [ip |-> m.ip, stack |-> m.stack, locals |-> m.locals,
     call_stack |-> m.call_stack, objects |-> m.objects,
     next_address |-> m.next_address]

\* nothing has been taken out of the mailbox of VM p yet
Untouched(p) ==
    /\ vms[p].queue = hist[p].sent
    /\ hist[p].pushed = <<>>
    /\ ~hist[p].relayed

C25_Step ==
    /\ \A q \in DOMAIN vms \cap DOMAIN vms' :
           (last'.kind = "step" /\ last'.vm # q) =>
               /\ Private(vms'[q]) = Private(vms[q])
               /\ IsPrefix(vms[q].queue, vms'[q].queue)
    /\ \A q \in DOMAIN vms' \ DOMAIN vms :
           /\ vms'[q].stack = <<>>
           /\ vms'[q].ip = last'.op.n
    /\ (IsStep(last', "ReceiveMessage") /\ last'.vm # Root
        /\ Untouched(last'.vm) /\ vms[last'.vm].queue # <<>>) =>
           /\ last'.res = Ok
           /\ Top(vms'[last'.vm].stack) = Head(hist[last'.vm].sent)
           /\ vms'[last'.vm].queue = Tail(vms[last'.vm].queue)

\* C25: a step of one VM leaves every other VM where it is; a spawned
\* child starts at its entry with an empty stack and executes nothing until
\* it is stepped itself; the values sent to it wait in its mailbox, and its
\* first ReceiveMessage pushes the first value sent.
C25_ChildWaitsForHost == [][C25_Step]_vars


C26_Step ==
    LET p == last'.vm
        s == vms[p].stack
        n == Len(s)
        c == p \o <<s[n].v>>
    IN (IsStep(last', "SendMessage") /\ last'.res = Ok) =>
          /\ n >= 2 /\ IsRef(s[n])
          /\ vms'[p].stack = Append(SubSeq(s, 1, n - 2), s[n])
          /\ Rc(vms', p, s[n].v) = Rc(vms, p, s[n].v)
          /\ vms'[c].queue = Append(vms[c].queue, s[n - 1])
          /\ \A q \in DOMAIN vms \ {c} : vms'[q].queue = vms[q].queue

\* C26: a successful SendMessage on [.., message, actorRef] leaves
\* [.., actorRef], the actor's count as it was, and exactly one copy of the
\* message appended to the actor's mailbox, no other mailbox touched.
C26_SendKeepsActorOnTop == [][C26_Step]_vars

\* an actor has been sent the reference to itself
C26_Witness ==
    /\ IsStep(last, "SendMessage") /\ last.res = Ok /\ last.vm = Root
    /\ vms[Root].stack = <<RefV(0)>>
    /\ vms[<<0>>].queue = <<RefV(0)>>
    /\ Rc(vms, Root, 0) = 2


\* the number of the two operands of SendMessage that refer to address a
Popped(s, a) ==
    (IF s[Len(s)] = RefV(a) THEN 1 ELSE 0)
    + (IF s[Len(s) - 1] = RefV(a) THEN 1 ELSE 0)

\* the count c after k calls of decrement_ref
DecrementedBy(c, k) == IF c > k THEN c - k ELSE 0

\* the top of the stack of VM p is a Reference to an Actor object
TargetsActor(p) ==
    /\ IsRef(Top(vms[p].stack))
    /\ HeapGet(vms[p], Top(vms[p].stack).v)
    /\ vms[p].objects[Top(vms[p].stack).v].kind = "Actor"

C27_Step ==
    LET p == last'.vm
        s == vms[p].stack
    IN (IsStep(last', "SendMessage") /\ Len(s) >= 2 /\ ~TargetsActor(p)) =>
          /\ last'.res = "InvalidReference"
          /\ vms'[p].stack = SubSeq(s, 1, Len(s) - 2)
          /\ DOMAIN vms'[p].objects = DOMAIN vms[p].objects
          /\ \A a \in DOMAIN vms[p].objects :
                 Rc(vms', p, a) = DecrementedBy(Rc(vms, p, a), Popped(s, a))
          /\ \A q \in DOMAIN vms : vms'[q].queue = vms[q].queue
          /\ held' = held

\* C27: a SendMessage whose target is not a Reference to an Actor object
\* faults InvalidReference with both operands popped and decremented, no
\* count raised for a channel slot and no mailbox changed.
C27_BadTargetPopsBoth == [][C27_Step]_vars

C28_Step ==
    LET p == last'.vm
        top == Top(vms[p].stack)
    IN (IsStep(last', "SetStrategy") /\ last'.res = Ok) =>
          /\ vms'[p \o <<top.v>>].strategy = <<last'.op.n>>
          /\ vms'[p].stack = vms[p].stack
          /\ Rc(vms', p, top.v) = Rc(vms, p, top.v)

\* C28: after a successful SetStrategy(code) the supervisor holds code as
\* its strategy, its reference is on top of the stack again and its count
\* is what it was before the instruction.
C28_SetStrategyStoresCode == [][C28_Step]_vars

\* the codes delivered on the supervisor channel VM p was constructed with
Notified(p) == vms[p].supervisor.queue

C29_State ==
    \A p \in DOMAIN vms :
        (~vms[p].supervisor.some \/ (p = Root /\ run = Ok)) =>
            Notified(p) = <<>>

\* C29: a VM constructed with a supervisor channel that faults during its
\* run eventually has a code delivered on that channel; nothing is
\* delivered when it halts normally or was given no channel.
C29_FaultIsReported ==
    /\ []C29_State
    /\ (vms[Root].supervisor.some /\ Faulted(run) /\ run # "NoBytecode")
           ~> (Notified(Root) # <<>>)

\* a op b on i32 operands, as arithmetic defines it: the quotient q and
\* the remainder r are those with a = q * b + r, |r| < |b|, r of a's sign
Magnitude(n) == IF n < 0 THEN 0 - n ELSE n

Quotients(a, b) ==
    {q \in (0 - Magnitude(a))..Magnitude(a) :
        LET r == a - q * b
        IN Magnitude(r) < Magnitude(b) /\ (r = 0 \/ (r < 0) = (a < 0))}

Results(name, a, b) ==
    CASE name = "Add" -> {a + b}
      [] name = "Sub" -> {a - b}
      [] name = "Mul" -> {a * b}
      [] name = "Div" -> Quotients(a, b)
      [] name = "Mod" -> {a - q * b : q \in Quotients(a, b)}

C30_Step ==
    LET s == vms[Root].stack
        n == Len(s)
    IN (/\ last'.kind = "step"
        /\ last'.op.op \in ArithmeticOps
        /\ last'.res = Ok) =>
          /\ n >= 2
          /\ Len(vms'[Root].stack) = n - 1
          /\ SubSeq(vms'[Root].stack, 1, n - 2) = SubSeq(s, 1, n - 2)
          /\ last'.op.op # "Exp" =>
                /\ Top(vms'[Root].stack).t = "Integer"
                /\ Top(vms'[Root].stack).v
                      \in Results(last'.op.op, s[n - 1].v, s[n].v)

C30_FiveThreeAdd ==
    (/\ bytecode = <<PushConst(IntV(5)), PushConst(IntV(3)), Op0("Add")>>
     /\ vms[Root].ip = 3) => vms[Root].stack = <<IntV(8)>>

\* C30: a binary arithmetic instruction pops b, then a, and pushes a op b
\* alone in their place: `a b Sub` gives a-b, `a b Div` a/b, `a b Mod`
\* a%b, and `5 3 Add` leaves Integer(8) as the whole stack.
C30_BinaryOperandOrder == []C30_FiveThreeAdd /\ [][C30_Step]_vars

C30_Witness ==
    /\ bytecode = <<PushConst(BoolV(TRUE)), PushConst(IntV(5)),
                    PushConst(IntV(3)), Op0("Sub")>>
    /\ last.op.op = "Sub"
    /\ last.res = Ok
    /\ vms[Root].stack = <<BoolV(TRUE), IntV(2)>>


Numeric(v) == v.t \in {"Integer", "Float"}

Matching(a, b) == Numeric(a) /\ a.t = b.t

\* the operands decide the fault of Mod and Neg, and nothing is pushed
C31_ModNeg ==
    LET s == vms[Root].stack
        n == Len(s)
    IN last'.kind = "step" =>
        /\ (last'.op.op = "Mod" /\ n >= 2) =>
              /\ (s[n - 1].t # "Integer" \/ s[n].t # "Integer")
                    => last'.res = "TypeMismatch"
              /\ (s[n - 1].t = "Integer" /\ s[n] = IntV(0))
                    => last'.res = "DivisionByZero"
        /\ (last'.op.op = "Neg" /\ n >= 1 /\ ~Numeric(s[n]))
              => last'.res = "TypeMismatch"
        /\ (last'.op.op \in ArithmeticOps \cup {"Neg"} /\ last'.res # Ok)
              => IsPrefix(vms'[Root].stack, s)

C31_Step ==
    LET s == vms[Root].stack
        n == Len(s)
    IN /\ C31_ModNeg
       /\ (/\ last'.kind = "step"
           /\ last'.op.op \in {"Add", "Sub", "Mul", "Div"}
           /\ n >= 2) =>
              /\ ~Matching(s[n - 1], s[n]) => last'.res = "TypeMismatch"
              /\ (last'.op.op = "Div" /\ s[n - 1].t = "Integer"
                  /\ s[n] = IntV(0)) => last'.res = "DivisionByZero"

\* C31: Add, Sub, Mul and Div on a pair that is neither Integer x Integer
\* nor Float x Float fault TypeMismatch; Div by Integer 0 and Mod by 0 fault
\* DivisionByZero; Mod on non-Integers and Neg on a non-numeric operand
\* fault TypeMismatch; a faulting instruction pushes no result.
C31_ArithmeticFaultsByKind == [][C31_Step]_vars


\* what a token is, read as text
IsWord(t) == Len(t) = 1 /\ t[1] \notin Digits \cup {"."}

IsBoolean(t) == t \in {<<"true">>, <<"false">>}

\* digits, after the k signs allowed in front of them
IsNumeral(t, signs) ==
    \E k \in {0, 1} :
        /\ Len(t) > k
        /\ k = 1 => (t[1] \in signs)
        /\ \A i \in (k + 1)..Len(t) : t[i] \in Digits

\* a float: one dot among the digits of a numeral, a digit on either side
IsFloat(t) ==
    \E j \in 1..Len(t) :
        /\ t[j] = "."
        /\ IsNumeral(SubSeq(t, 1, j - 1) \o SubSeq(t, j + 1, Len(t)),
                     {"+", "-"})
        /\ j = 1 => (Len(t) > 1 /\ t[2] \in Digits)

TakesOperand(t) == IsWord(t) /\ t[1] \in OperandWords

\* token i is the operand of the mnemonic before it
RECURSIVE IsOperand(_, _)
IsOperand(text, i) ==
    i > 1 /\ TakesOperand(text[i - 1]) /\ ~IsOperand(text, i - 1)

\* what is wrong with token i, Ok if nothing
Fault(text, i) ==
    IF IsOperand(text, i)
    THEN IF IsNumeral(text[i], {"+"}) THEN Ok ELSE "InvalidAddress"
    ELSE IF Contains(text[i], ".")
    THEN IF IsFloat(text[i]) THEN Ok ELSE "ParseError"
    ELSE IF TakesOperand(text[i])
    THEN IF i = Len(text) THEN "InvalidAddress" ELSE Ok
    ELSE IF IsWord(text[i]) /\ ~IsBoolean(text[i])
            /\ text[i][1] \notin PlainWords
    THEN "InvalidToken"
    ELSE Ok

Faulty(text) == {i \in 1..Len(text) : Fault(text, i) # Ok}

FirstFaulty(text) == CHOOSE i \in Faulty(text) : \A j \in Faulty(text) : i <= j

\* the place in the output of the instruction token i stands for
Place(text, i) == Cardinality({j \in 1..i : ~IsOperand(text, j)})

Emitted(text, i, ins) ==
    IF IsBoolean(text[i]) THEN ins = PushConst(BoolV(text[i] = <<"true">>))
    ELSE IF Contains(text[i], ".")
    THEN ins.op = "PushConst" /\ ins.val.t = "Float"
    ELSE IF IsNumeral(text[i], {"+", "-"})
    THEN /\ ins.op = "PushConst" /\ ins.val.t = "Integer"
         /\ ins.val.v = (IF text[i][1] = "-" THEN 0 - 1 ELSE 1)
                        * DigitsValue(Unsigned(text[i], {"+", "-"}))
    ELSE IF TakesOperand(text[i])
    THEN ins = OpN(text[i][1], DigitsValue(Unsigned(text[i + 1], {"+"})))
    ELSE ins = Op0(WordOp(text[i][1]))

C32_Step ==
    last'.kind = "compile" =>
        IF Faulty(source) = {}
        THEN /\ last'.res = Ok
             /\ Len(bytecode') = Place(source, Len(source))
             /\ \A i \in 1..Len(source) :
                    ~IsOperand(source, i) =>
                        Emitted(source, i, bytecode'[Place(source, i)])
        ELSE /\ last'.res = Fault(source, FirstFaulty(source))
             /\ bytecode' = <<>>

\* C32: compile turns the tokens into instructions in order, a mnemonic
\* with an operand taking exactly the next token as its unsigned operand;
\* it fails with InvalidAddress for a missing or non-numeric operand,
\* InvalidToken for an unknown word, ParseError for a dotted token that is
\* no float, and a failed compilation yields no instructions.
C32_CompileInOrder == [][C32_Step]_vars

\* "Jump 10 Pop": the operand is taken, and only the operand
C32_Witness ==
    /\ last.kind = "compile" /\ last.res = Ok
    /\ source = <<<<"Jump">>, <<"1", "0">>, <<"Pop">>>>
    /\ bytecode = <<OpN("Jump", 10), Op0("Pop")>>


C33_Step ==
    LET p == last'.vm
    IN (/\ IsStep(last', "JumpIfFalse")
        /\ vms[p].stack # <<>>
        /\ Top(vms[p].stack) = BoolV(TRUE)) =>
          /\ last'.res = Ok
          /\ vms'[p].stack = Front(vms[p].stack)
          /\ vms'[p].ip = vms[p].ip + 1
          /\ vms'[p].call_stack = vms[p].call_stack

\* C33: JumpIfFalse(t) on Boolean(true) succeeds for every t, beyond the
\* end of the instructions too: the value is popped, the target is not
\* looked at, and execution goes on with the next instruction.
C33_TrueFallsThrough == [][C33_Step]_vars

\* the target 3 lies beyond the two instructions
C33_Witness ==
    /\ IsStep(last, "JumpIfFalse") /\ last.res = Ok
    /\ bytecode = <<PushConst(BoolV(TRUE)), OpN("JumpIfFalse", 3)>>
    /\ vms[Root].ip = 2
    /\ vms[Root].stack = <<>>


C34_Step ==
    (/\ last'.kind = "execute"
     /\ last'.op = OpN("SpawnActor", 0)
     /\ bytecode = <<>>) =>
        /\ last'.res = Ok
        /\ vms'[Root].stack # <<>>
        /\ IsRef(Top(vms'[Root].stack))
        /\ HeapGet(vms'[Root], Top(vms'[Root].stack).v)
        /\ vms'[Root].objects[Top(vms'[Root].stack).v] =
               [kind |-> "Actor", rc |-> 1]

\* C34: SpawnActor(0) executed on a context with no instructions succeeds,
\* allocating an actor whose Reference, of count 1, is left on top of the
\* stack.
C34_SpawnOnEmptyVector == [][C34_Step]_vars


\* C35: a Reference produced by SpawnSupervisor is accepted as the target of
\* SendMessage like one produced by SpawnActor: the step succeeds, the message
\* is appended to the supervisor's mailbox and the reference is pushed back
C35_Step ==
    \A p \in DOMAIN vms :
        LET s == vms[p].stack
        IN (/\ last'.kind = "step" /\ last'.vm = p
            /\ last'.op.op = "SendMessage"
            /\ Len(s) >= 2 /\ IsRef(Top(s))
            /\ HeapGet(vms[p], Top(s).v)
            /\ vms[p].objects[Top(s).v].kind = "Supervisor")
           => /\ last'.res = Ok
              /\ vms'[p \o <<Top(s).v>>].queue =
                     Append(vms[p \o <<Top(s).v>>].queue, s[Len(s) - 1])
              /\ vms'[p].stack = Append(SubSeq(s, 1, Len(s) - 2), Top(s))

C35_SupervisorTakesMessages == [][C35_Step]_vars

\* a message has been sent to a live supervisor
C35_Witness ==
    /\ last.kind = "step" /\ last.op.op = "SendMessage"
    /\ \E a \in DOMAIN vms[last.vm].objects :
           /\ vms[last.vm].objects[a].kind = "Supervisor"
           /\ last.res = "InvalidReference"


\* C36: a successful step of an instruction that is not a control-flow
\* instruction (Jump, a taken JumpIfFalse, Call, Return) at index i leaves ip
\* at i + 1, and a step that faults leaves ip at i
ControlFlow(m, op) ==
    \/ op.op \in {"Jump", "Call", "Return"}
    \/ /\ op.op = "JumpIfFalse"
       /\ m.stack # <<>> /\ Top(m.stack) = BoolV(FALSE)

C36_Step ==
    \A p \in DOMAIN vms :
        (last'.kind = "step" /\ last'.vm = p /\ p \in DOMAIN vms')
        => /\ last'.ip = vms[p].ip
           /\ (last'.res = Ok /\ ~ControlFlow(vms[p], last'.op))
              => vms'[p].ip = vms[p].ip + 1
           /\ last'.res # Ok => vms'[p].ip = vms[p].ip

C36_SequentialIp == [][C36_Step]_vars

\* an instruction that is not the first has faulted and ip is still its index
C36_Witness ==
    /\ last.kind = "step" /\ last.res \notin {Ok, "ExecutionOutOfBounds"}
    /\ last.ip > 0
    /\ last.vm \in DOMAIN vms /\ vms[last.vm].ip = last.ip


\* C37: integer arithmetic never aborts the VM: on Integer operands Add, Sub,
\* Mul, Div, Mod, Exp and Neg push a Value or return a fault; Div and Mod with
\* a non-zero divisor push an Integer, also for (-2^31, -1), and Exp with a
\* non-negative exponent pushes an Integer
PushedInteger(m) == m.stack # <<>> /\ Top(m.stack).t = "Integer"

C37_Binary ==
    LET s == vms[Root].stack
        b == Top(s)
        name == last'.op.op
    IN (/\ name \in ArithmeticOps
        /\ Len(s) >= 2 /\ b.t = "Integer" /\ s[Len(s) - 1].t = "Integer")
       => /\ last'.res = Ok => Len(vms'[Root].stack) = Len(s) - 1
          /\ (name \in {"Div", "Mod"} /\ b.v # 0)
             => last'.res = Ok /\ PushedInteger(vms'[Root])
          /\ (name = "Exp" /\ b.v >= 0)
             => last'.res = Ok /\ PushedInteger(vms'[Root])

C37_Step ==
    (last'.kind = "step" /\ last'.vm = Root)
    => /\ last'.res # Panic
       /\ C37_Binary
       /\ (last'.op.op = "Neg" /\ PushedInteger(vms[Root]))
          => last'.res = Ok /\ PushedInteger(vms'[Root])

C37_IntegerArithmeticNeverAborts == [][C37_Step]_vars

\* an integer operation has panicked
C37_Witness == last.kind = "step" /\ last.res = Panic


\* C38: an instruction that faults for lack of operands changes nothing: a
\* binary arithmetic instruction on fewer than 2 values, Swap on fewer than 2
\* values, Dup or Pop on an empty stack and LoadVar(i) of an unset local leave
\* the stack, the locals, the call stack and every reference count as they
\* were
LacksOperands(m, op) ==
    \/ op.op \in ArithmeticOps /\ Len(m.stack) < 2
    \/ op.op = "Swap" /\ Len(m.stack) < 2
    \/ op.op \in {"Dup", "Pop"} /\ m.stack = <<>>
    \/ op.op = "LoadVar" /\ op.n \notin DOMAIN m.locals

C38_Step ==
    \A p \in DOMAIN vms :
        (last'.kind = "step" /\ last'.vm = p /\ LacksOperands(vms[p], last'.op))
        => /\ last'.res = IF last'.op.op = "LoadVar" THEN "VariableNotFound"
                          ELSE IF last'.op.op = "Swap" THEN "StackUnderflowFor"
                          ELSE "StackUnderflow"
           /\ p \in DOMAIN vms'
           /\ vms'[p].stack = vms[p].stack
           /\ vms'[p].locals = vms[p].locals
           /\ vms'[p].call_stack = vms[p].call_stack
           /\ vms'[p].objects = vms[p].objects

C38_UnderflowChangesNothing == [][C38_Step]_vars

\* a binary instruction has faulted on a stack that holds one Reference
C38_Witness ==
    /\ last.kind = "step" /\ last.op.op \in ArithmeticOps
    /\ last.res = "StackUnderflow"
    /\ last.vm \in DOMAIN vms
    /\ Len(vms[last.vm].stack) = 1 /\ IsRef(Top(vms[last.vm].stack))
    /\ HeapGet(vms[last.vm], Top(vms[last.vm].stack).v)


\* C39: under handle_run, where a concurrent task sends Integer(42), then
\* Boolean(true), then drops the sender, in every interleaving the first
\* ReceiveMessage of the VM pushes Integer(42), the second pushes
\* Boolean(true), and a third faults MailboxEmpty instead of blocking forever
HostMessages == <<IntV(42), BoolV(TRUE)>>

Received == Len(hist[Root].pushed)

C39_Step ==
    (/\ host # HostHolding
     /\ last'.kind = "step" /\ last'.vm = Root
     /\ last'.op.op = "ReceiveMessage")
    => IF Received < Len(HostMessages)
       THEN /\ last'.res = Ok
            /\ vms'[Root].stack =
                   Append(vms[Root].stack, HostMessages[Received + 1])
       ELSE /\ last'.res = "MailboxEmpty"
            /\ run' = "MailboxEmpty"
            /\ vms'[Root].stack = vms[Root].stack

AtReceive(n) ==
    /\ host # HostHolding
    /\ run = "running"
    /\ vms[Root].ip < Len(bytecode)
    /\ bytecode[vms[Root].ip + 1].op = "ReceiveMessage"
    /\ Received = n

C39_HostFeedsRun ==
    /\ [][C39_Step]_vars
    /\ \A n \in 0..(Len(HostMessages) - 1) : AtReceive(n) ~> Received = n + 1
    /\ AtReceive(Len(HostMessages)) ~> run = "MailboxEmpty"

\* the third ReceiveMessage has faulted over the two values received
C39_Witness ==
    /\ host # HostHolding
    /\ last.kind = "step" /\ last.op.op = "ReceiveMessage"
    /\ last.res = "MailboxEmpty"
    /\ vms[Root].stack = HostMessages
    /\ hist[Root].pushed = HostMessages

====
